---- MODULE Spec2Model ----
(***************************************************************************)
(* mbcp: mirroring of a source account's posts and reposts onto            *)
(* destination accounts.  The model covers the Store aggregate, the poll   *)
(* (`get`: fetch, reconcile, fan-out), the queue processors (`post` of     *)
(* destination.rs and of operations/destination.rs), the retention         *)
(* sweeper, the persistence collaborator, process crashes and the session  *)
(* handling of the AT-protocol client.                                     *)
(***************************************************************************)
EXTENDS FiniteSets, Integers, Naturals, Sequences, TLC

(* ------------------------------------------------------------------ *)
(* Bounds                                                               *)
(* ------------------------------------------------------------------ *)
\* longest page a fetch returns when only polls are run
MaxPage == 3
\* longest page a fetch returns when polls and processor runs alternate
MaxRunPage == 1
\* number of polls started over a behaviour
MaxPolls == 2
\* number of process crashes over a behaviour
MaxCrashes == 1
\* number of processor runs started over a behaviour
MaxRuns == 2
\* number of queue entries fanned out over a behaviour
MaxEntries == 6

(* ------------------------------------------------------------------ *)
(* Values                                                               *)
(* ------------------------------------------------------------------ *)
None == "none"
\* no destination identifier (destination identifiers are 1, 2, ..)
NoIdentifier == 0

AccountKey(o, i) == [origin |-> o, identifier |-> i]
S1 == AccountKey("src.example", "alice")
D1 == AccountKey("dst1.example", "alice1")
D2 == AccountKey("dst2.example", "alice2")

\* config::User {src, dsts}
ConfigUser == [src |-> S1, dsts |-> <<D1, D2>>]

AccountPair(s, d) == [src |-> s, dst |-> d]
to_src_key(pair) == pair.src
to_dst_key(pair) == pair.dst

\* source::LiveStatus: LivePost {identifier, uri, content, reply_src_identifier, ..}
\* or Repost(CreateRepostOperationStatus {src_identifier, target_identifier, ..})
LivePost(id, reply) ==
    [kind |-> "Post", identifier |-> id, uri |-> <<"uri", id>>,
     content |-> <<"text", id>>,
     reply_src_identifier |-> reply, target_identifier |-> None]
LiveRepost(id, target) ==
    [kind |-> "Repost", identifier |-> id, uri |-> None, content |-> None,
     reply_src_identifier |-> None, target_identifier |-> target]

P1 == LivePost("p1", None)
P2 == LivePost("p2", "p1")
P3 == LivePost("p3", None)
R4 == LiveRepost("r4", "p1")
\* the items of the source account when only polls are run
LiveItems == {P1, P2, P3, R4}
\* the items of the source account when polls and processor runs alternate
RunItems == {P1, R4}

RECURSIVE SeqsUpTo(_, _)
SeqsUpTo(S, n) ==
    IF n = 0 THEN {<<>>}
    ELSE LET shorter == SeqsUpTo(S, n - 1)
         IN  shorter \cup {Append(s, x) : s \in shorter, x \in S}

Range(s) == {s[i] : i \in 1..Len(s)}
NoDup(s) == \A i, j \in 1..Len(s) : i # j => s[i] # s[j]

\* the pages the source platform can return: distinct items, newest first
LivePages(items, n) == {s \in SeqsUpTo(items, n) : NoDup(s)}

Map(f(_), s) == [i \in 1..Len(s) |-> f(s[i])]

RECURSIVE FlatSeq(_)
FlatSeq(ss) == IF ss = <<>> THEN <<>> ELSE Head(ss) \o FlatSeq(Tail(ss))

Position(s, Test(_)) ==
    IF \E i \in 1..Len(s) : Test(s[i])
    THEN CHOOSE i \in 1..Len(s) : Test(s[i]) /\ \A j \in 1..(i - 1) : ~Test(s[j])
    ELSE 0

(* ------------------------------------------------------------------ *)
(* store.rs                                                             *)
(* ------------------------------------------------------------------ *)
EmptyStore == [users |-> <<>>, operations |-> <<>>]

NewUser(account_key) ==
    [src |-> [origin |-> account_key.origin, identifier |-> account_key.identifier,
              session |-> None, statuses |-> <<>>],
     dsts |-> <<>>]

NewDestination(dst_key) ==
    [origin |-> dst_key.origin, identifier |-> dst_key.identifier, statuses |-> <<>>]

user_position(st, account_key) ==
    Position(st.users, LAMBDA user : /\ user.src.origin = account_key.origin
                                     /\ user.src.identifier = account_key.identifier)

\* get_or_create_user_mut pushing a new user without looking for the key
get_or_create_user_mut_push(st, account_key) ==
    [st EXCEPT !.users = Append(@, NewUser(account_key))]

\* Store::get_or_create_user_mut: the store with the user present
get_or_create_user_mut(st, account_key) ==
    IF user_position(st, account_key) # 0 THEN st
    ELSE [st EXCEPT !.users = Append(@, NewUser(account_key))]

dst_position(user, dst_key) ==
    Position(user.dsts, LAMBDA dst : /\ dst.origin = dst_key.origin
                                     /\ dst.identifier = dst_key.identifier)

\* User::get_or_create_dst_mut
user_get_or_create_dst_mut(user, dst_key) ==
    IF dst_position(user, dst_key) # 0 THEN user
    ELSE [user EXCEPT !.dsts = Append(@, NewDestination(dst_key))]

\* Store::get_or_create_dst_mut
get_or_create_dst_mut(st, account_pair) ==
    LET st1 == get_or_create_user_mut(st, to_src_key(account_pair))
        u   == user_position(st1, to_src_key(account_pair))
    IN  [st1 EXCEPT !.users[u] = user_get_or_create_dst_mut(@, to_dst_key(account_pair))]

(* ------------------------------------------------------------------ *)
(* sources: reconciler and fan-out                                      *)
(* ------------------------------------------------------------------ *)
\* impl From<LiveStatus> for store::user::SourceStatus
to_source_status(live) ==
    [kind |-> live.kind, identifier |-> live.identifier, content |-> live.content,
     target_identifier |-> live.target_identifier]

Identifiers(statuses) == {statuses[i].identifier : i \in 1..Len(statuses)}

\* source-level Operation built for a new live item
CreateOf(live) ==
    [type |-> IF live.kind = "Post" THEN "CreatePost" ELSE "CreateRepost",
     src_identifier |-> live.identifier,
     reply_src_identifier |-> live.reply_src_identifier,
     target_identifier |-> live.target_identifier]

\* source-level Operation built for a recorded item that is gone
DeleteOf(status) ==
    [type |-> IF status.kind = "Post" THEN "DeletePost" ELSE "DeleteRepost",
     src_identifier |-> status.identifier,
     reply_src_identifier |-> None,
     target_identifier |-> None]

\* source-level Operation for a recorded post whose content changed
UpdateOf(live) ==
    [type |-> "UpdatePost",
     src_identifier |-> live.identifier,
     reply_src_identifier |-> live.reply_src_identifier,
     target_identifier |-> None]

\* create_operations that also diffs the content of the items that stayed
create_operations_diffing_content(live_statuses, src_statuses) ==
    LET created == SelectSeq(live_statuses,
                     LAMBDA live : live.identifier \notin Identifiers(src_statuses))
        updated == SelectSeq(live_statuses,
                     LAMBDA live :
                        \E i \in 1..Len(src_statuses) :
                            /\ src_statuses[i].identifier = live.identifier
                            /\ src_statuses[i].content # live.content)
        deleted == SelectSeq(src_statuses,
                     LAMBDA status : status.identifier \notin Identifiers(live_statuses))
    IN  Map(CreateOf, created) \o Map(UpdateOf, updated) \o Map(DeleteOf, deleted)

\* operation_factory::create_operations
create_operations(live_statuses, src_statuses) ==
    LET created == SelectSeq(live_statuses,
                     LAMBDA live : live.identifier \notin Identifiers(src_statuses))
        deleted == SelectSeq(src_statuses,
                     LAMBDA status : status.identifier \notin Identifiers(live_statuses))
    IN  Map(CreateOf, created) \o Map(DeleteOf, deleted)

Reverse(s) == [i \in 1..Len(s) |-> s[Len(s) + 1 - i]]

\* fetch_statuses diffing against an empty baseline
fetch_statuses_no_baseline(live_statuses, src_statuses) ==
    [statuses   |-> Map(to_source_status, live_statuses),
     operations |-> create_operations(live_statuses, <<>>)]

\* fetch_statuses diffing the page oldest first
fetch_statuses_oldest_first(live_statuses, src_statuses) ==
    [statuses   |-> Map(to_source_status, live_statuses),
     operations |-> create_operations(Reverse(live_statuses), Reverse(src_statuses))]

\* fetch_statuses, after the client returned live_statuses
fetch_statuses(live_statuses, src_statuses) ==
    [statuses   |-> Map(to_source_status, live_statuses),
     operations |-> create_operations(live_statuses, src_statuses)]

\* Operation::to_store; seq is the queue entry's serial number (bookkeeping)
to_store(operation, account_pair) ==
    [type |-> operation.type,
     account_pair |-> account_pair,
     src_identifier |-> operation.src_identifier,
     reply_src_identifier |-> operation.reply_src_identifier,
     target_identifier |-> operation.target_identifier,
     seq |-> 0]

has_users_operations(operations, src_key) ==
    \E i \in 1..Len(operations) : to_src_key(operations[i].account_pair) = src_key

\* only the first configured destination
dst_account_keys_first(config_user) == SubSeq(config_user.dsts, 1, 1)

\* the destination keys get collects from config_user.dsts
dst_account_keys(config_user) == config_user.dsts

\* merge_operations::merge_operations: the entries appended to the queue
merged_operations(dst_keys, src_key, operations) ==
    FlatSeq(Map(LAMBDA dst_key :
                  Map(LAMBDA operation : to_store(operation, AccountPair(src_key, dst_key)),
                      operations),
                dst_keys))

merge_operations(st, dst_keys, src_key, operations) ==
    [st EXCEPT !.operations = @ \o merged_operations(dst_keys, src_key, operations)]


(* ------------------------------------------------------------------ *)
(* State                                                                *)
(* ------------------------------------------------------------------ *)
VARIABLES
    config,     \* config::Config.users, fixed at start-up
    feed,       \* the pages the source platform may answer a fetch with, and
                \* the number of queue entries up to which it shows changes
    store,      \* the Store the process holds in memory
    committed,  \* the Store last persisted by Database::commit
    tasks,      \* one `get` per configured user: its position and locals
    proc,       \* the running processor (`post`): position and locals
    cancelled,  \* the CancellationToken
    remote,     \* the items that exist on the destination platforms
    created,    \* how many items the destinations have created so far
    hist,       \* per queue entry ever fanned out: what happened to it
    pending,    \* entries applied in memory but not yet committed
    polls, runs, crashes,
    agent       \* the AT-protocol client: its session store, the clock it read,
                \* the position of Client::new and the logins it made

vars == <<config, feed, store, committed, tasks, proc, cancelled, remote, created,
          hist, pending, polls, runs, crashes, agent>>

\* Option<Session>: the access token's expiry (seconds since the epoch) when
\* the token carries one, and the login that issued the session
NoSession == [some |-> FALSE, has_expiry |-> FALSE, expiry |-> 0, login |-> 0]
Session(expiry, login) ==
    [some |-> TRUE, has_expiry |-> TRUE, expiry |-> expiry, login |-> login]

\* no AT-protocol client is being constructed
NoAgent ==
    [pc |-> "idle", initial_session |-> NoSession, session_store |-> NoSession,
     now |-> 0, logins |-> 0, constructions |-> 0, result |-> None]

IdleTask ==
    [pc |-> "idle", session |-> None, has_users_operations |-> FALSE,
     src_statuses |-> <<>>, live_statuses |-> <<>>, statuses |-> <<>>,
     operations |-> <<>>, result |-> None]

NoOperation == [type |-> None]

IdleProc ==
    [pc |-> "idle", variant |-> None, i |-> 0, operation |-> NoOperation,
     result |-> None, failed |-> 0, start |-> <<>>,
     call |-> [name |-> None, identifier |-> NoIdentifier]]

Init ==
    /\ config = <<ConfigUser>>
    /\ feed = [pages |-> LivePages(RunItems, MaxRunPage), entries |-> MaxEntries]
    /\ store = EmptyStore
    /\ committed = EmptyStore
    /\ tasks = [t \in 1..1 |-> IdleTask]
    /\ proc = IdleProc
    /\ cancelled = FALSE
    /\ remote = {}
    /\ created = 0
    /\ hist = <<>>
    /\ pending = {}
    /\ polls = 0
    /\ runs = 0
    /\ crashes = 0
    /\ agent = NoAgent

Tasks == 1..Len(config)
AllTasksIdle == \A t \in Tasks : tasks[t].pc = "idle"
src_account_key(t) == config[t].src

\* Client::to_session of the source client: the serialized session
to_session == "session"

(* ------------------------------------------------------------------ *)
(* sources/source.rs: get                                               *)
(* ------------------------------------------------------------------ *)
\* lines 126-132: lock, get_or_create_user_mut, clone the session
get_Session(t) ==
    /\ tasks[t].pc = "idle"
    /\ proc.pc = "idle"
    /\ polls < MaxPolls
    /\ polls' = polls + 1
    /\ LET st == get_or_create_user_mut(store, src_account_key(t))
           u  == user_position(st, src_account_key(t))
       IN  /\ store' = st
           /\ tasks' = [tasks EXCEPT ![t] =
                          [IdleTask EXCEPT !.pc = "client",
                                           !.session = st.users[u].src.session]]
    /\ UNCHANGED <<config, agent, feed, committed, proc, cancelled, remote, created, hist,
                   pending, runs, crashes>>

\* lines 134-141: create_client, then store the client's session
get_CreateClient(t) ==
    /\ tasks[t].pc = "client"
    /\ LET session == to_session
           st == get_or_create_user_mut(store, src_account_key(t))
           u  == user_position(st, src_account_key(t))
       IN  /\ store' = [st EXCEPT !.users[u].src.session = session]
           /\ tasks' = [tasks EXCEPT ![t].pc = "read", ![t].session = session]
    /\ UNCHANGED <<config, agent, feed, committed, proc, cancelled, remote, created, hist,
                   pending, polls, runs, crashes>>

\* line 134: create_client fails, get returns the error
get_CreateClientErr(t) ==
    /\ tasks[t].pc = "client"
    /\ tasks' = [tasks EXCEPT ![t].pc = "idle", ![t].result = "err"]
    /\ UNCHANGED <<config, agent, feed, store, committed, proc, cancelled, remote, created,
                   hist, pending, polls, runs, crashes>>

\* get_Read moving the recorded statuses out of the Store instead of cloning
get_Read_taking(t) ==
    /\ tasks[t].pc = "read"
    /\ LET st == get_or_create_user_mut(store, src_account_key(t))
           u  == user_position(st, src_account_key(t))
       IN  /\ store' = [st EXCEPT !.users[u].src.statuses = <<>>]
           /\ tasks' = [tasks EXCEPT
                 ![t].pc = "fetch",
                 ![t].has_users_operations =
                      has_users_operations(st.operations, src_account_key(t)),
                 ![t].src_statuses = st.users[u].src.statuses]
    /\ UNCHANGED <<config, agent, feed, committed, proc, cancelled, remote, created, hist,
                   pending, polls, runs, crashes>>

\* lines 143-149: has_users_operations and a clone of the recorded statuses
get_Read(t) ==
    /\ tasks[t].pc = "read"
    /\ LET st == get_or_create_user_mut(store, src_account_key(t))
           u  == user_position(st, src_account_key(t))
       IN  /\ store' = st
           /\ tasks' = [tasks EXCEPT
                 ![t].pc = "fetch",
                 ![t].has_users_operations =
                      has_users_operations(st.operations, src_account_key(t)),
                 ![t].src_statuses = st.users[u].src.statuses]
    /\ UNCHANGED <<config, agent, feed, committed, proc, cancelled, remote, created, hist,
                   pending, polls, runs, crashes>>

\* lines 151-152: fetch_statuses succeeds with some page
get_Fetch(t) ==
    /\ tasks[t].pc = "fetch"
    /\ \E live_statuses \in feed.pages :
         LET fetched == fetch_statuses(live_statuses, tasks[t].src_statuses)
         IN  /\ Len(hist)
                  + Len(config[t].dsts) * Len(fetched.operations) <= feed.entries
             /\ tasks' = [tasks EXCEPT ![t].pc = "store",
                                    ![t].live_statuses = live_statuses,
                                    ![t].statuses = fetched.statuses,
                                    ![t].operations = fetched.operations]
    /\ UNCHANGED <<config, agent, feed, store, committed, proc, cancelled, remote, created,
                   hist, pending, polls, runs, crashes>>

\* lines 151-152: fetch_statuses fails, get returns the error
get_FetchErr(t) ==
    /\ tasks[t].pc = "fetch"
    /\ tasks' = [tasks EXCEPT ![t].pc = "idle", ![t].result = "err"]
    /\ UNCHANGED <<config, agent, feed, store, committed, proc, cancelled, remote, created,
                   hist, pending, polls, runs, crashes>>

\* get_Store merging the fetched page into the recorded list
get_Store_merging(t) ==
    /\ tasks[t].pc = "store"
    /\ LET st == get_or_create_user_mut(store, src_account_key(t))
           u  == user_position(st, src_account_key(t))
       IN  store' = [st EXCEPT !.users[u].src.statuses =
                        tasks[t].statuses \o
                        SelectSeq(@, LAMBDA old :
                            old.identifier \notin Identifiers(tasks[t].statuses))]
    /\ tasks' = [tasks EXCEPT
          ![t].pc = IF tasks[t].operations = <<>> /\ ~tasks[t].has_users_operations
                    THEN "idle" ELSE "merge",
          ![t].result = IF tasks[t].operations = <<>> /\ ~tasks[t].has_users_operations
                        THEN "ok" ELSE None]
    /\ UNCHANGED <<config, agent, feed, committed, proc, cancelled, remote, created, hist,
                   pending, polls, runs, crashes>>

\* get_Store writing to the first user of the Store, whoever it is
get_Store_first_user(t) ==
    /\ tasks[t].pc = "store"
    /\ LET st == get_or_create_user_mut(store, src_account_key(t))
       IN  store' = [st EXCEPT !.users[1].src.statuses = tasks[t].statuses]
    /\ tasks' = [tasks EXCEPT
          ![t].pc = IF tasks[t].operations = <<>> /\ ~tasks[t].has_users_operations
                    THEN "idle" ELSE "merge",
          ![t].result = IF tasks[t].operations = <<>> /\ ~tasks[t].has_users_operations
                        THEN "ok" ELSE None]
    /\ UNCHANGED <<config, agent, feed, committed, proc, cancelled, remote, created, hist,
                   pending, polls, runs, crashes>>

\* get_Store leaving the recorded statuses as they were
get_Store_keeping(t) ==
    /\ tasks[t].pc = "store"
    /\ store' = get_or_create_user_mut(store, src_account_key(t))
    /\ tasks' = [tasks EXCEPT
          ![t].pc = IF tasks[t].operations = <<>> /\ ~tasks[t].has_users_operations
                    THEN "idle" ELSE "merge",
          ![t].result = IF tasks[t].operations = <<>> /\ ~tasks[t].has_users_operations
                        THEN "ok" ELSE None]
    /\ UNCHANGED <<config, agent, feed, committed, proc, cancelled, remote, created, hist,
                   pending, polls, runs, crashes>>

\* lines 154-162: replace the recorded statuses; return when nothing to do
get_Store(t) ==
    /\ tasks[t].pc = "store"
    /\ LET st == get_or_create_user_mut(store, src_account_key(t))
           u  == user_position(st, src_account_key(t))
       IN  store' = [st EXCEPT !.users[u].src.statuses = tasks[t].statuses]
    /\ tasks' = [tasks EXCEPT
          ![t].pc = IF tasks[t].operations = <<>> /\ ~tasks[t].has_users_operations
                    THEN "idle" ELSE "merge",
          ![t].result = IF tasks[t].operations = <<>> /\ ~tasks[t].has_users_operations
                        THEN "ok" ELSE None]
    /\ UNCHANGED <<config, agent, feed, committed, proc, cancelled, remote, created, hist,
                   pending, polls, runs, crashes>>

\* the last n entries of the queue numbered after the entries fanned out so far
Stamp(operations, n) ==
    [i \in 1..Len(operations) |->
        IF i > Len(operations) - n
        THEN [operations[i] EXCEPT !.seq = Len(hist) + (i - (Len(operations) - n))]
        ELSE operations[i]]

NewHist(op) ==
    [op |-> op,
     calls |-> 0,          \* capability calls made for the entry
     oks |-> 0,            \* .. that succeeded
     errs |-> 0,           \* .. that failed
     noops |-> 0,          \* deletes that found nothing to delete
     persisted |-> FALSE,  \* the entry was in the queue of a committed Store
     durable |-> FALSE,    \* the entry's application was committed
     interrupted |-> 0,    \* restarts while the entry was being processed
     lost |-> 0]           \* restarts that discarded its uncommitted application

\* get_Merge taking the account's queued entries off when nothing is new
get_Merge_dropping_queued(t) ==
    /\ tasks[t].pc = "merge"
    /\ IF tasks[t].operations # <<>>
       THEN LET merged == merge_operations(store, dst_account_keys(config[t]),
                                           src_account_key(t), tasks[t].operations)
                n      == Len(merged.operations) - Len(store.operations)
                queue  == Stamp(merged.operations, n)
            IN  /\ store' = [merged EXCEPT !.operations = queue]
                /\ hist' = hist \o Map(NewHist, SubSeq(queue, Len(queue) - n + 1, Len(queue)))
       ELSE /\ store' = [store EXCEPT !.operations =
                            SelectSeq(@, LAMBDA operation :
                                to_src_key(operation.account_pair) # src_account_key(t))]
            /\ UNCHANGED hist
    /\ tasks' = [tasks EXCEPT ![t].pc = "idle", ![t].result = "ok"]
    /\ UNCHANGED <<config, agent, feed, committed, proc, cancelled, remote, created,
                   pending, polls, runs, crashes>>

\* lines 164-174: fan the operations out to every destination
get_Merge(t) ==
    /\ tasks[t].pc = "merge"
    /\ IF tasks[t].operations # <<>>
       THEN LET merged == merge_operations(store, dst_account_keys(config[t]),
                                           src_account_key(t), tasks[t].operations)
                n      == Len(merged.operations) - Len(store.operations)
                queue  == Stamp(merged.operations, n)
            IN  /\ store' = [merged EXCEPT !.operations = queue]
                /\ hist' = hist \o Map(NewHist, SubSeq(queue, Len(queue) - n + 1, Len(queue)))
       ELSE UNCHANGED <<store, hist>>
    /\ tasks' = [tasks EXCEPT ![t].pc = "idle", ![t].result = "ok"]
    /\ UNCHANGED <<config, agent, feed, committed, proc, cancelled, remote, created,
                   pending, polls, runs, crashes>>


(* ------------------------------------------------------------------ *)
(* destination.rs                                                       *)
(* ------------------------------------------------------------------ *)
all_dst_statuses(st) ==
    FlatSeq(Map(LAMBDA user : FlatSeq(Map(LAMBDA dst : dst.statuses, user.dsts)),
                st.users))

\* to_dst_identifier searching only the first Destination of every user
to_dst_identifier_first_dst(src_identifier, st) ==
    LET all == FlatSeq(Map(LAMBDA user : IF user.dsts = <<>> THEN <<>>
                                         ELSE user.dsts[1].statuses,
                           st.users))
        idx == Position(all, LAMBDA dst : dst.src_identifier = src_identifier)
    IN  IF idx = 0 THEN NoIdentifier ELSE all[idx].identifier

\* to_dst_identifier taking the first DestinationStatus of the store whatever
\* it mirrors
to_dst_identifier_unfiltered(src_identifier, st) ==
    LET all == all_dst_statuses(st)
    IN  IF all = <<>> THEN NoIdentifier ELSE all[1].identifier

\* to_dst_identifier: the first DestinationStatus of the whole store that
\* mirrors src_identifier
to_dst_identifier(src_identifier, st) ==
    LET all == all_dst_statuses(st)
        idx == Position(all, LAMBDA dst : dst.src_identifier = src_identifier)
    IN  IF idx = 0 THEN NoIdentifier ELSE all[idx].identifier

IsCreate(operation) == operation.type \in {"CreatePost", "CreateRepost"}
IsDelete(operation) == operation.type \in {"DeletePost", "DeleteRepost"}
IsUpdate(operation) == operation.type = "UpdatePost"
StatusKind(operation) ==
    IF operation.type \in {"CreateRepost", "DeleteRepost"} THEN "Repost" ELSE "Post"

\* insert_status pushing the new status at the end of the list
insert_status_push(st, account_pair, status) ==
    LET st1 == get_or_create_dst_mut(st, account_pair)
        u   == user_position(st1, to_src_key(account_pair))
        d   == dst_position(st1.users[u], to_dst_key(account_pair))
    IN  [st1 EXCEPT !.users[u].dsts[d].statuses = Append(@, status)]

\* statuses.insert(0, DestinationStatus {identifier, src_identifier})
insert_status(st, account_pair, status) ==
    LET st1 == get_or_create_dst_mut(st, account_pair)
        u   == user_position(st1, to_src_key(account_pair))
        d   == dst_position(st1.users[u], to_dst_key(account_pair))
    IN  [st1 EXCEPT !.users[u].dsts[d].statuses = <<status>> \o @]

DestinationStatus(operation, dst_identifier) ==
    [kind |-> StatusKind(operation), identifier |-> dst_identifier,
     src_identifier |-> operation.src_identifier]

\* the destination client of the operation's pair, looked up in the configuration
has_dst_client(operation) ==
    \E t \in Tasks :
        /\ config[t].src = to_src_key(operation.account_pair)
        /\ \E i \in 1..Len(config[t].dsts) :
               config[t].dsts[i] = to_dst_key(operation.account_pair)

\* what the destination platform holds after a create / a delete
RemoteCreate(operation, dst_identifier) ==
    remote \cup {[dst |-> to_dst_key(operation.account_pair),
                  identifier |-> dst_identifier,
                  src_identifier |-> operation.src_identifier]}
RemoteDelete(operation, dst_identifier) ==
    {item \in remote : ~(/\ item.dst = to_dst_key(operation.account_pair)
                         /\ item.identifier = dst_identifier)}

Called(seq, outcome) ==
    [hist EXCEPT ![seq].calls = @ + 1,
                 ![seq].oks = IF outcome = "ok" THEN @ + 1 ELSE @,
                 ![seq].errs = IF outcome = "err" THEN @ + 1 ELSE @]
Nooped(seq) == [hist EXCEPT ![seq].noops = @ + 1]

\* the process dies (panic) and is started again from the persisted Store
Restarted(result) ==
    /\ store' = committed
    /\ hist' = [s \in 1..Len(hist) |->
                  [hist[s] EXCEPT
                     !.interrupted = IF proc.operation # NoOperation /\ proc.operation.seq = s
                                     THEN @ + 1 ELSE @,
                     !.lost = IF s \in pending THEN @ + 1 ELSE @]]
    /\ tasks' = [t \in Tasks |-> IdleTask]
    /\ proc' = [IdleProc EXCEPT !.result = result]
    /\ pending' = {}

Returned(result) ==
    [proc EXCEPT !.pc = "idle", !.result = result, !.operation = NoOperation]

\* post: the caller starts a run
post_Start ==
    /\ proc.pc = "idle"
    /\ AllTasksIdle
    /\ runs < MaxRuns
    /\ runs' = runs + 1
    /\ proc' = [IdleProc EXCEPT !.pc = "loop", !.variant = "post",
                                !.start = store.operations]
    /\ UNCHANGED <<config, agent, feed, store, committed, tasks, cancelled, remote, created,
                   hist, pending, polls, crashes>>

\* post_Pop persisting the shortened queue before the operation is applied
post_Pop_commit_first ==
    /\ proc.pc = "loop"
    /\ proc.variant = "post"
    /\ IF proc.i < 2 /\ store.operations # <<>>
       THEN LET operation == store.operations[Len(store.operations)]
                popped    == [store EXCEPT !.operations = SubSeq(@, 1, Len(@) - 1)]
            IN  /\ store' = popped
                /\ committed' = popped
                /\ proc' = [proc EXCEPT !.pc = "operation", !.operation = operation]
                /\ UNCHANGED <<tasks, pending, hist>>
       ELSE /\ proc' = Returned("ok")
            /\ UNCHANGED <<store, committed, tasks, pending, hist>>
    /\ UNCHANGED <<config, agent, feed, cancelled, remote, created, polls, runs, crashes>>

\* post_Pop reading the last operation without taking it off the queue
post_Pop_peek ==
    /\ proc.pc = "loop"
    /\ proc.variant = "post"
    /\ IF proc.i < 2 /\ store.operations # <<>>
       THEN LET operation == store.operations[Len(store.operations)]
            IN  /\ proc' = [proc EXCEPT !.pc = "operation", !.operation = operation]
                /\ UNCHANGED <<store, tasks, pending, hist>>
       ELSE /\ proc' = Returned("ok")
            /\ UNCHANGED <<store, tasks, pending, hist>>
    /\ UNCHANGED <<config, agent, feed, committed, cancelled, remote, created, polls,
                   runs, crashes>>

\* lines 92-102: `for _ in 0..2`, pop the last operation, find its client
post_Pop ==
    /\ proc.pc = "loop"
    /\ proc.variant = "post"
    /\ IF proc.i < 2 /\ store.operations # <<>>
       THEN LET operation == store.operations[Len(store.operations)]
                popped    == [store EXCEPT !.operations = SubSeq(@, 1, Len(@) - 1)]
            IN  IF has_dst_client(operation)
                THEN /\ store' = popped
                     /\ proc' = [proc EXCEPT !.pc = "operation", !.operation = operation]
                     /\ UNCHANGED <<tasks, pending, hist>>
                ELSE Restarted("panic")
       ELSE /\ proc' = Returned("ok")
            /\ UNCHANGED <<store, tasks, pending, hist>>
    /\ UNCHANGED <<config, agent, feed, committed, cancelled, remote, created, polls,
                   runs, crashes>>

\* post_operation recording the DestinationStatus before the create call returns
post_operation_recording_first(outcome) ==
    LET operation == proc.operation
        seq       == operation.seq
    IN
    /\ proc.pc = "operation"
    /\ proc.variant = "post"
    /\ IF IsCreate(operation)
       THEN LET reply_identifier ==
                    IF operation.reply_src_identifier = None THEN NoIdentifier
                    ELSE to_dst_identifier(operation.reply_src_identifier, store)
                dst_identifier == created + 1
            IN  IF outcome = "ok"
                THEN /\ store' = insert_status(store, operation.account_pair,
                                     DestinationStatus(operation, dst_identifier))
                     /\ remote' = RemoteCreate(operation, dst_identifier)
                     /\ created' = created + 1
                     /\ hist' = Called(seq, "ok")
                     /\ pending' = pending \cup {seq}
                     /\ proc' = [proc EXCEPT !.pc = "commit",
                                    !.call = [name |-> "post", identifier |-> reply_identifier]]
                     /\ UNCHANGED tasks
                ELSE /\ store' = insert_status(store, operation.account_pair,
                                     DestinationStatus(operation, dst_identifier))
                     /\ hist' = Called(seq, "err")
                     /\ proc' = [Returned("err") EXCEPT !.failed = seq,
                                    !.call = [name |-> "post", identifier |-> reply_identifier]]
                     /\ UNCHANGED <<remote, created, pending, tasks>>
       ELSE IF IsDelete(operation)
       THEN LET dst_identifier == to_dst_identifier(operation.src_identifier, store)
            IN  IF dst_identifier = NoIdentifier
                THEN /\ outcome = "ok"
                     /\ hist' = Nooped(seq)
                     /\ pending' = pending \cup {seq}
                     /\ proc' = [proc EXCEPT !.pc = "commit",
                                    !.call = [name |-> None, identifier |-> NoIdentifier]]
                     /\ UNCHANGED <<store, remote, created, tasks>>
                ELSE IF outcome = "ok"
                THEN /\ remote' = RemoteDelete(operation, dst_identifier)
                     /\ hist' = Called(seq, "ok")
                     /\ pending' = pending \cup {seq}
                     /\ proc' = [proc EXCEPT !.pc = "commit",
                                    !.call = [name |-> "delete", identifier |-> dst_identifier]]
                     /\ UNCHANGED <<store, created, tasks>>
                ELSE /\ hist' = Called(seq, "err")
                     /\ proc' = [Returned("err") EXCEPT !.failed = seq,
                                    !.call = [name |-> "delete", identifier |-> dst_identifier]]
                     /\ UNCHANGED <<store, remote, created, pending, tasks>>
       ELSE \* Update: todo!()
            /\ outcome = "ok"
            /\ Restarted("panic")
            /\ UNCHANGED <<remote, created>>
    /\ UNCHANGED <<config, agent, feed, committed, cancelled, polls, runs, crashes>>

\* post_operation, lines 40-84, with the outcome of the capability call
post_operation(outcome) ==
    LET operation == proc.operation
        seq       == operation.seq
    IN
    /\ proc.pc = "operation"
    /\ proc.variant = "post"
    /\ IF IsCreate(operation)
       THEN LET reply_identifier ==
                    IF operation.reply_src_identifier = None THEN NoIdentifier
                    ELSE to_dst_identifier(operation.reply_src_identifier, store)
                dst_identifier == created + 1
            IN  IF outcome = "ok"
                THEN /\ store' = insert_status(store, operation.account_pair,
                                     DestinationStatus(operation, dst_identifier))
                     /\ remote' = RemoteCreate(operation, dst_identifier)
                     /\ created' = created + 1
                     /\ hist' = Called(seq, "ok")
                     /\ pending' = pending \cup {seq}
                     /\ proc' = [proc EXCEPT !.pc = "commit",
                                    !.call = [name |-> "post", identifier |-> reply_identifier]]
                     /\ UNCHANGED tasks
                ELSE /\ hist' = Called(seq, "err")
                     /\ proc' = [Returned("err") EXCEPT !.failed = seq,
                                    !.call = [name |-> "post", identifier |-> reply_identifier]]
                     /\ UNCHANGED <<store, remote, created, pending, tasks>>
       ELSE IF IsDelete(operation)
       THEN LET dst_identifier == to_dst_identifier(operation.src_identifier, store)
            IN  IF dst_identifier = NoIdentifier
                THEN /\ outcome = "ok"
                     /\ hist' = Nooped(seq)
                     /\ pending' = pending \cup {seq}
                     /\ proc' = [proc EXCEPT !.pc = "commit",
                                    !.call = [name |-> None, identifier |-> NoIdentifier]]
                     /\ UNCHANGED <<store, remote, created, tasks>>
                ELSE IF outcome = "ok"
                THEN /\ remote' = RemoteDelete(operation, dst_identifier)
                     /\ hist' = Called(seq, "ok")
                     /\ pending' = pending \cup {seq}
                     /\ proc' = [proc EXCEPT !.pc = "commit",
                                    !.call = [name |-> "delete", identifier |-> dst_identifier]]
                     /\ UNCHANGED <<store, created, tasks>>
                ELSE /\ hist' = Called(seq, "err")
                     /\ proc' = [Returned("err") EXCEPT !.failed = seq,
                                    !.call = [name |-> "delete", identifier |-> dst_identifier]]
                     /\ UNCHANGED <<store, remote, created, pending, tasks>>
       ELSE \* Update: todo!()
            /\ outcome = "ok"
            /\ Restarted("panic")
            /\ UNCHANGED <<remote, created>>
    /\ UNCHANGED <<config, agent, feed, committed, cancelled, polls, runs, crashes>>

post_operation_Ok == post_operation("ok")
post_operation_Err == post_operation("err")

\* bookkeeping of a commit of st: what it makes durable
Committed(st) ==
    [s \in 1..Len(hist) |->
        [hist[s] EXCEPT
           !.durable = @ \/ s \in pending,
           !.persisted = @ \/ \E i \in 1..Len(st.operations) : st.operations[i].seq = s]]

\* line 105: database.commit(store) persists the Store
post_Commit ==
    /\ proc.pc = "commit"
    /\ proc.variant = "post"
    /\ committed' = store
    /\ hist' = Committed(store)
    /\ pending' = {}
    /\ proc' = [proc EXCEPT !.pc = "loop", !.i = @ + 1, !.operation = NoOperation]
    /\ UNCHANGED <<config, agent, feed, store, tasks, cancelled, remote, created, polls, runs,
                   crashes>>

\* line 105: database.commit(store) fails, post returns the error
post_CommitErr ==
    /\ proc.pc = "commit"
    /\ proc.variant = "post"
    /\ proc' = Returned("err")
    /\ UNCHANGED <<config, agent, feed, store, committed, tasks, cancelled, remote, created,
                   hist, pending, polls, runs, crashes>>

(* ------------------------------------------------------------------ *)
(* The process crashes and is started again from the persisted Store    *)
(* ------------------------------------------------------------------ *)
Crash ==
    /\ crashes < MaxCrashes
    /\ crashes' = crashes + 1
    /\ Restarted("crash")
    /\ UNCHANGED <<config, agent, feed, committed, cancelled, remote, created, polls, runs>>

Get ==
    \/ \E t \in Tasks : get_Session(t)
    \/ \E t \in Tasks : get_CreateClient(t)
    \/ \E t \in Tasks : get_CreateClientErr(t)
    \/ \E t \in Tasks : get_Read(t)
    \/ \E t \in Tasks : get_Fetch(t)
    \/ \E t \in Tasks : get_FetchErr(t)
    \/ \E t \in Tasks : get_Store(t)
    \/ \E t \in Tasks : get_Merge(t)

Post ==
    \/ post_Start
    \/ post_Pop
    \/ post_operation_Ok
    \/ post_operation_Err
    \/ post_Commit
    \/ post_CommitErr

Next == Get \/ Post \/ Crash

\* polls, processor runs of destination.rs and crashes
Spec == Init /\ [][Next]_vars

\* polls only, over the larger feed
InitPoll ==
    /\ config = <<ConfigUser>>
    /\ feed = [pages |-> LivePages(LiveItems, MaxPage),
               entries |-> MaxPolls * Len(ConfigUser.dsts) * (Cardinality(LiveItems) + 1)]
    /\ store = EmptyStore
    /\ committed = EmptyStore
    /\ tasks = [t \in 1..1 |-> IdleTask]
    /\ proc = IdleProc
    /\ cancelled = FALSE
    /\ remote = {}
    /\ created = 0
    /\ hist = <<>>
    /\ pending = {}
    /\ polls = 0
    /\ runs = 0
    /\ crashes = 0
    /\ agent = NoAgent

NextPoll == Get

SpecPoll == InitPoll /\ [][NextPoll]_vars


(* ------------------------------------------------------------------ *)
(* Properties of the processor (specification Spec)                     *)
(* ------------------------------------------------------------------ *)
Applied(s) == hist[s].oks + hist[s].noops > 0
InQueue(st, s) == \E i \in 1..Len(st.operations) : st.operations[i].seq = s
InFlight(s) == proc.operation # NoOperation /\ proc.operation.seq = s

\* C1: an entry that was queued when the run started and is no longer in
\* Store.queue has had its capability call succeed and that application
\* committed; no entry leaves the queue before.
C1_RemovedOnlyAfterCommittedSuccess ==
    \A i \in 1..Len(proc.start) :
        LET s == proc.start[i].seq
        IN  ~InQueue(store, s) => (Applied(s) /\ hist[s].durable)

\* C2: when a run has returned an error because a capability call failed,
\* the failed entry and the entries that were queued with it are still in
\* Store.queue, in their positions.
C2_FailedActionStaysQueued ==
    (proc.pc = "idle" /\ proc.result = "err" /\ proc.failed # 0) =>
        /\ InQueue(store, proc.failed)
        /\ \E n \in 1..Len(proc.start) :
              /\ store.operations = SubSeq(proc.start, 1, n)
              /\ proc.start[n].seq = proc.failed


\* C3: crash safety of a run that commits after every successful action:
\* (a) once the application of an entry is committed, no capability is
\* called for that entry again, whatever crashes and re-runs follow; (b) an
\* entry of a committed queue for which no capability call has returned (and
\* no delete was found to have nothing to delete) is still in the committed
\* queue.
C3_NoCallAfterCommit ==
    \A s \in 1..Len(hist) :
        hist[s].durable =>
            /\ hist'[s].calls = hist[s].calls
            /\ hist'[s].noops = hist[s].noops

C3_UnattemptedStaysCommitted ==
    \A s \in 1..Len(hist) :
        (hist[s].persisted /\ hist[s].calls = 0 /\ hist[s].noops = 0)
            => InQueue(committed, s)

C4_CreateSucceedsAtMostOnce ==
    \A s \in 1..Len(hist) : IsCreate(hist[s].op) => hist[s].oks <= 1

\* C4 amended: a create succeeds again for an entry only after a restart
\* discarded the uncommitted record of an earlier success; a success that
\* was committed is never repeated.
C4_CreateRepeatedOnlyAfterLostCommit ==
    \A s \in 1..Len(hist) :
        IsCreate(hist[s].op) =>
            /\ hist[s].oks <= 1 + hist[s].lost
            /\ (hist[s].durable /\ hist[s].lost = 0) => hist[s].oks = 1

\* a create succeeded, a crash came before its commit, and the re-run
\* created the item a second time
C4_Witness ==
    \E s \in 1..Len(hist) :
        /\ IsCreate(hist[s].op)
        /\ hist[s].lost = 1
        /\ hist[s].oks = 2
        /\ Cardinality({item \in remote :
                           /\ item.dst = to_dst_key(hist[s].op.account_pair)
                           /\ item.src_identifier = hist[s].op.src_identifier}) = 2

\* C5: entries of one AccountPair are applied in the order of their
\* fan-out: no capability call is made for an entry while an entry of the
\* same pair that was fanned out earlier is still waiting in the queue
\* without a call of its own.
C5_PairOrder ==
    \A i \in 1..Len(store.operations) :
        \A s \in 1..Len(hist) :
            LET a == store.operations[i]
            IN  (/\ hist[s].op.account_pair = a.account_pair
                 /\ a.seq < s
                 /\ hist[s].calls > 0)
                => hist[a.seq].calls > 0

\* C6: no entry is lost without having been applied: an entry of a
\* committed queue that has not been applied is still in the queue, in
\* memory or as committed, or is being processed.
C6_NoActionLost ==
    \A s \in 1..Len(hist) :
        (hist[s].persisted /\ ~Applied(s))
            => (InQueue(store, s) \/ InQueue(committed, s) \/ InFlight(s))


(* ------------------------------------------------------------------ *)
(* Properties of the poll (specification SpecPoll)                      *)
(* ------------------------------------------------------------------ *)
Count(seq, Test(_)) == Cardinality({i \in 1..Len(seq) : Test(seq[i])})
IdsOf(seq) == [i \in 1..Len(seq) |-> seq[i].identifier]
SrcIdsOf(seq) == [i \in 1..Len(seq) |-> seq[i].src_identifier]
CreateType(kind) == IF kind = "Post" THEN "CreatePost" ELSE "CreateRepost"
DeleteType(kind) == IF kind = "Post" THEN "DeletePost" ELSE "DeleteRepost"
TypeCount(operations, type, id) ==
    Count(operations, LAMBDA op : op.type = type /\ op.src_identifier = id)
IdCount(operations, id) ==
    Count(operations, LAMBDA op : op.src_identifier = id)

\* C7: the operations the reconciler returns for a baseline and a live page:
\* one Create (of the item's kind) per identifier only in live, one Delete
\* (of the recorded kind) per identifier only in the baseline, nothing else.
C7_Diff ==
    \A t \in Tasks :
        tasks[t].pc = "store" =>
            LET live == tasks[t].live_statuses
                base == tasks[t].src_statuses
                ops  == tasks[t].operations
            IN  /\ \A i \in 1..Len(live) :
                      IF live[i].identifier \notin Identifiers(base)
                      THEN /\ IdCount(ops, live[i].identifier) = 1
                           /\ TypeCount(ops, CreateType(live[i].kind),
                                        live[i].identifier) = 1
                      ELSE IdCount(ops, live[i].identifier) = 0
                /\ \A i \in 1..Len(base) :
                      IF base[i].identifier \notin Identifiers(live)
                      THEN /\ IdCount(ops, base[i].identifier) = 1
                           /\ TypeCount(ops, DeleteType(base[i].kind),
                                        base[i].identifier) = 1
                      ELSE IdCount(ops, base[i].identifier) = 0
                /\ \A i \in 1..Len(ops) :
                      ops[i].src_identifier \in Identifiers(live) \cup Identifiers(base)

\* a diff with a new item, a removed item and a kept item, posts and a repost
C7_Witness ==
    \E t \in Tasks :
        /\ tasks[t].pc = "store"
        /\ IdsOf(tasks[t].src_statuses) = <<"p1", "p2">>
        /\ tasks[t].live_statuses = <<R4, P1>>
        /\ Len(tasks[t].operations) = 2

\* C8: after a successful poll the recorded statuses of the account are the
\* fetched page: the same items in the same order, nothing of the previous
\* list besides.
C8_StatusesReplaced ==
    \A t \in Tasks :
        (tasks[t].pc = "merge" \/ (tasks[t].pc = "idle" /\ tasks[t].result = "ok")) =>
            LET u == user_position(store, src_account_key(t))
            IN  /\ u # 0
                /\ Len(store.users[u].src.statuses) = Len(tasks[t].live_statuses)
                /\ \A i \in 1..Len(tasks[t].live_statuses) :
                      /\ store.users[u].src.statuses[i].identifier
                            = tasks[t].live_statuses[i].identifier
                      /\ store.users[u].src.statuses[i].kind
                            = tasks[t].live_statuses[i].kind

\* a poll replaced a two-item list by a page that shares one item with it
C8_Witness ==
    \E t \in Tasks :
        /\ tasks[t].pc = "idle" /\ tasks[t].result = "ok"
        /\ IdsOf(tasks[t].src_statuses) = <<"p1", "p2">>
        /\ tasks[t].live_statuses = <<P3, P1>>
        /\ IdsOf(store.users[user_position(store, src_account_key(t))].src.statuses)
              = <<"p3", "p1">>

IsCreateType(op) == op.type \in {"CreatePost", "CreateRepost"}
IsDeleteType(op) == op.type \in {"DeletePost", "DeleteRepost"}

\* C9: the operations follow scan order: the creates in the order of the
\* live page, the deletes in the order of the baseline; baseline [P1, P2] and
\* live [P3, P1] give exactly [Create(P3), Delete(P2)] and the new baseline
\* [P3, P1].
C9_ScanOrder ==
    \A t \in Tasks :
        tasks[t].pc = "store" =>
            LET live == tasks[t].live_statuses
                base == tasks[t].src_statuses
                ops  == tasks[t].operations
            IN  /\ SrcIdsOf(SelectSeq(ops, IsCreateType))
                      = IdsOf(SelectSeq(live,
                            LAMBDA x : x.identifier \notin Identifiers(base)))
                /\ SrcIdsOf(SelectSeq(ops, IsDeleteType))
                      = IdsOf(SelectSeq(base,
                            LAMBDA x : x.identifier \notin Identifiers(live)))
                /\ (IdsOf(base) = <<"p1", "p2">> /\ live = <<P3, P1>>) =>
                      /\ Len(ops) = 2
                      /\ ops[1].type = "CreatePost" /\ ops[1].src_identifier = "p3"
                      /\ ops[2].type = "DeletePost" /\ ops[2].src_identifier = "p2"
                      /\ IdsOf(tasks[t].statuses) = <<"p3", "p1">>

\* the example of the claim
C9_Witness ==
    \E t \in Tasks :
        /\ tasks[t].pc = "store"
        /\ IdsOf(tasks[t].src_statuses) = <<"p1", "p2">>
        /\ tasks[t].live_statuses = <<P3, P1>>

\* C10: fan-out of N operations to K destinations appends K*N entries: for
\* every operation and every destination one entry with the operation's
\* payload and the pair (source, destination); the K pairs differ; the
\* entries queued before stay in place.
C10_FanOutStep ==
    \A t \in Tasks :
        (tasks[t].pc = "merge" /\ tasks'[t].pc = "idle" /\ tasks'[t].result = "ok") =>
            LET K   == Len(config[t].dsts)
                ops == tasks[t].operations
                N   == Len(ops)
                old == store.operations
                new == store'.operations
            IN  /\ Len(new) = Len(old) + K * N
                /\ SubSeq(new, 1, Len(old)) = old
                /\ \A j \in 1..K : \A i \in 1..N :
                      Cardinality({k \in (Len(old) + 1)..Len(new) :
                          /\ new[k].account_pair
                                = AccountPair(src_account_key(t), config[t].dsts[j])
                          /\ new[k].type = ops[i].type
                          /\ new[k].src_identifier = ops[i].src_identifier
                          /\ new[k].reply_src_identifier = ops[i].reply_src_identifier
                          /\ new[k].target_identifier = ops[i].target_identifier}) = 1
                /\ \A j1, j2 \in 1..K :
                      j1 # j2 =>
                          AccountPair(src_account_key(t), config[t].dsts[j1])
                             # AccountPair(src_account_key(t), config[t].dsts[j2])

C10_FanOut == [][C10_FanOutStep]_vars

\* a fan-out of three operations to two destinations onto a non-empty queue
C10_Witness ==
    \E t \in Tasks :
        /\ tasks[t].pc = "idle" /\ tasks[t].result = "ok"
        /\ Len(config[t].dsts) = 2
        /\ Len(tasks[t].operations) = 3
        /\ Len(store.operations) > 6


(* ------------------------------------------------------------------ *)
(* The processor of destination.rs on a Store loaded from persistence   *)
(* ------------------------------------------------------------------ *)
\* longest queue of a loaded Store
MaxQueue == 3

\* a queue entry as the Store deserializes it (store.rs: Store derives
\* Deserialize; every variant of Operation can be in a persisted queue)
LoadedOperation(type, src_identifier, reply_src_identifier, dst_key) ==
    to_store([type |-> type, src_identifier |-> src_identifier,
              reply_src_identifier |-> reply_src_identifier,
              target_identifier |-> None],
             AccountPair(S1, dst_key))

LoadedOperations ==
    UNION {{LoadedOperation("CreatePost", "p1", None, dst_key),
            LoadedOperation("CreatePost", "p2", "p1", dst_key),
            LoadedOperation("DeletePost", "p1", None, dst_key),
            LoadedOperation("UpdatePost", "p1", None, dst_key)} : dst_key \in {D1, D2}}

\* the entries of a loaded queue numbered by their position
Numbered(queue) == [i \in 1..Len(queue) |-> [queue[i] EXCEPT !.seq = i]]

LoadedHist(queue) ==
    [i \in 1..Len(queue) |-> [NewHist(Numbered(queue)[i]) EXCEPT !.persisted = TRUE]]

InitLoaded ==
    /\ config = <<ConfigUser>>
    /\ feed = [pages |-> {}, entries |-> 0]
    /\ \E queue \in SeqsUpTo(LoadedOperations, MaxQueue) :
          /\ store = [users |-> <<>>, operations |-> Numbered(queue)]
          /\ hist = LoadedHist(queue)
    /\ committed = store
    /\ tasks = [t \in 1..1 |-> IdleTask]
    /\ proc = IdleProc
    /\ cancelled = FALSE
    /\ remote = {}
    /\ created = 0
    /\ pending = {}
    /\ polls = 0
    /\ runs = 0
    /\ crashes = 0
    /\ agent = NoAgent

NextLoaded == Post

\* processor runs of destination.rs on a loaded Store
SpecLoaded == InitLoaded /\ [][NextLoaded]_vars

HasStatusFor(st, src_identifier) ==
    \E i \in 1..Len(all_dst_statuses(st)) :
        all_dst_statuses(st)[i].src_identifier = src_identifier

\* the statuses of every Destination of the Store, by position
DstStatuses(st) ==
    [u \in 1..Len(st.users) |->
        [d \in 1..Len(st.users[u].dsts) |-> st.users[u].dsts[d].statuses]]

\* C11: applying a DeletePost / DeleteRepost whose src_identifier no
\* DestinationStatus mirrors succeeds, calls no capability and leaves every
\* Destination.statuses as it was; the delete is again one of an absent
\* item afterwards, so applying it any number of times gives the Store one
\* application gives.
C11_DeleteOfAbsentStep ==
    (/\ proc.pc = "operation"
     /\ IsDelete(proc.operation)
     /\ ~HasStatusFor(store, proc.operation.src_identifier))
    => /\ proc'.pc = "commit"
       /\ proc'.call.name = None
       /\ \A s \in 1..Len(hist) : hist'[s].calls = hist[s].calls
       /\ remote' = remote
       /\ store'.users = store.users
       /\ DstStatuses(store') = DstStatuses(store)
       /\ ~HasStatusFor(store', proc.operation.src_identifier)

C11_DeleteOfAbsentIsNoOp == [][C11_DeleteOfAbsentStep]_vars

\* the same delete was applied twice in a row, with another destination's
\* statuses present, and the Store kept its statuses
C11_Witness ==
    \E s, r \in 1..Len(hist) :
        /\ s # r
        /\ IsDelete(hist[s].op) /\ IsDelete(hist[r].op)
        /\ hist[s].op.account_pair = hist[r].op.account_pair
        /\ hist[s].op.src_identifier = hist[r].op.src_identifier
        /\ hist[s].noops = 1 /\ hist[r].noops = 1
        /\ hist[s].calls = 0 /\ hist[r].calls = 0
        /\ hist[s].durable /\ hist[r].durable
        /\ Len(all_dst_statuses(store)) > 0

\* the statuses of the Destination an AccountPair addresses
StatusesOf(st, account_pair) ==
    LET u == user_position(st, to_src_key(account_pair))
        d == IF u = 0 THEN 0 ELSE dst_position(st.users[u], to_dst_key(account_pair))
    IN  IF u = 0 \/ d = 0 THEN <<>> ELSE st.users[u].dsts[d].statuses

Mirrors(statuses, src_identifier) ==
    \E i \in 1..Len(statuses) : statuses[i].src_identifier = src_identifier

\* C12: when a DeletePost / DeleteRepost finds a DestinationStatus of its
\* destination that mirrors its src_identifier and the delete capability
\* succeeds, that Destination.statuses is one entry shorter afterwards and
\* holds no entry for the src_identifier.
C12_DeleteRemovesStatusStep ==
    (/\ proc.pc = "operation"
     /\ IsDelete(proc.operation)
     /\ Mirrors(StatusesOf(store, proc.operation.account_pair),
                proc.operation.src_identifier)
     /\ proc'.pc = "commit")
    => /\ Len(StatusesOf(store', proc.operation.account_pair))
             = Len(StatusesOf(store, proc.operation.account_pair)) - 1
       /\ ~Mirrors(StatusesOf(store', proc.operation.account_pair),
                   proc.operation.src_identifier)

C12_DeleteRemovesStatus == [][C12_DeleteRemovesStatusStep]_vars

\* C13: when the create capability of a CreatePost succeeds and returns
\* identifier d, the Destination the action's AccountPair addresses (made
\* on demand, with its User) has DestinationStatus {d, src_identifier} at
\* index 0 followed by the statuses it had; one status was added to the
\* Store in all, and every other Destination has the statuses it had.
C13_CreateRecordsStatusStep ==
    (/\ proc.pc = "operation"
     /\ proc.operation.type = "CreatePost"
     /\ proc'.pc = "commit")
    => LET pair == proc.operation.account_pair
           old  == StatusesOf(store, pair)
           new  == StatusesOf(store', pair)
           u0   == user_position(store', to_src_key(pair))
           d0   == dst_position(store'.users[u0], to_dst_key(pair))
       IN  /\ u0 # 0 /\ d0 # 0
           /\ Len(new) = Len(old) + 1
           /\ Tail(new) = old
           /\ new[1].src_identifier = proc.operation.src_identifier
           /\ remote' \ remote =
                  {[dst |-> to_dst_key(pair), identifier |-> new[1].identifier,
                    src_identifier |-> proc.operation.src_identifier]}
           /\ Len(all_dst_statuses(store')) = Len(all_dst_statuses(store)) + 1
           /\ Len(store'.users) >= Len(store.users)
           /\ \A u \in 1..Len(store'.users) :
                 /\ u <= Len(store.users) =>
                        Len(store'.users[u].dsts) >= Len(store.users[u].dsts)
                 /\ \A d \in 1..Len(store'.users[u].dsts) :
                        (u # u0 \/ d # d0) =>
                            /\ u <= Len(store.users)
                            /\ d <= Len(store.users[u].dsts)
                            /\ store'.users[u].dsts[d] = store.users[u].dsts[d]

C13_CreateRecordsStatus == [][C13_CreateRecordsStatusStep]_vars

\* a create put its status in front of an older one while another
\* Destination, made on demand, kept its own
C13_Witness ==
    \E u \in 1..Len(store.users) :
        \E d, e \in 1..Len(store.users[u].dsts) :
            /\ d # e
            /\ Len(store.users[u].dsts[d].statuses) = 2
            /\ store.users[u].dsts[d].statuses[1].identifier
                  > store.users[u].dsts[d].statuses[2].identifier
            /\ Len(store.users[u].dsts[e].statuses) = 1
            /\ store.users[u].dsts[e].statuses[1].identifier
                  < store.users[u].dsts[d].statuses[2].identifier

\* C14: the reply target a CreatePost with reply parent r hands to the
\* create capability is the identifier of a DestinationStatus of the Store
\* (of any user and destination) that mirrors r when there is one, and no
\* reply target when there is none or the action has no reply parent; the
\* capability is called in either case.
C14_ReplyTargetStep ==
    (/\ proc.pc = "operation"
     /\ proc.operation.type = "CreatePost")
    => LET r   == proc.operation.reply_src_identifier
           all == all_dst_statuses(store)
       IN  /\ proc'.call.name = "post"
           /\ hist'[proc.operation.seq].calls = hist[proc.operation.seq].calls + 1
           /\ IF r # None /\ Mirrors(all, r)
              THEN \E i \in 1..Len(all) :
                      /\ all[i].src_identifier = r
                      /\ all[i].identifier = proc'.call.identifier
              ELSE proc'.call.identifier = NoIdentifier

C14_ReplyTarget == [][C14_ReplyTargetStep]_vars

\* a reply was created unthreaded while nothing mirrored its parent, and a
\* later reply on one destination was threaded under the parent's mirror
\* on the other destination
C14_Witness ==
    /\ proc.pc = "commit"
    /\ proc.operation.type = "CreatePost"
    /\ proc.operation.reply_src_identifier = "p1"
    /\ proc.call.name = "post"
    /\ proc.call.identifier # NoIdentifier
    /\ ~Mirrors(StatusesOf(store, proc.operation.account_pair), "p1")
    /\ \E s \in 1..Len(hist) :
          /\ hist[s].op.type = "CreatePost"
          /\ hist[s].op.reply_src_identifier = "p1"
          /\ hist[s].oks = 1
          /\ \E i \in 1..Len(all_dst_statuses(store)) :
                /\ all_dst_statuses(store)[i].src_identifier = hist[s].op.src_identifier
                /\ \A j \in 1..Len(all_dst_statuses(store)) :
                      all_dst_statuses(store)[j].src_identifier = "p1" =>
                          all_dst_statuses(store)[j].identifier
                              > all_dst_statuses(store)[i].identifier

\* C15: processing an UpdatePost is not an error: the step that applies it
\* ends neither the run nor the process, calls no capability, changes no
\* User or Destination record, and leaves the action off the queue.
C15_UpdateConsumedStep ==
    (/\ proc.pc = "operation"
     /\ IsUpdate(proc.operation))
    => /\ proc'.pc \in {"loop", "commit"}
       /\ proc'.result = None
       /\ \A s \in 1..Len(hist) : hist'[s].calls = hist[s].calls
       /\ store'.users = store.users
       /\ ~InQueue(store', proc.operation.seq)

C15_UpdateConsumed == [][C15_UpdateConsumedStep]_vars


(* ------------------------------------------------------------------ *)
(* operations/destination.rs: the processor with a cancellation token   *)
(* ------------------------------------------------------------------ *)
\* an account that is not among the configured destinations
D3 == AccountKey("dst3.example", "alice3")

OpsOperations ==
    LoadedOperations
        \cup {to_store([type |-> "CreateRepost", src_identifier |-> "r4",
                        reply_src_identifier |-> None, target_identifier |-> "p1"],
                       AccountPair(S1, D1)),
              LoadedOperation("CreatePost", "p1", None, D3)}

InitOps ==
    /\ config = <<ConfigUser>>
    /\ feed = [pages |-> {}, entries |-> 0]
    /\ \E queue \in SeqsUpTo(OpsOperations, MaxQueue) :
          /\ store = [users |-> <<>>, operations |-> Numbered(queue)]
          /\ hist = LoadedHist(queue)
    /\ committed = store
    /\ tasks = [t \in 1..1 |-> IdleTask]
    /\ proc = IdleProc
    /\ cancelled = FALSE
    /\ remote = {}
    /\ created = 0
    /\ pending = {}
    /\ polls = 0
    /\ runs = 0
    /\ crashes = 0
    /\ agent = NoAgent

\* cancellation_token.cancel(), by whoever holds the token
Cancel ==
    /\ ~cancelled
    /\ cancelled' = TRUE
    /\ UNCHANGED <<config, agent, feed, store, committed, tasks, proc, remote, created,
                   hist, pending, polls, runs, crashes>>

\* dsts.iter().find(|dst| dst.to_account_key() == operation.account_pair().to_dst_key())
find_dst(operation) ==
    \E t \in Tasks : \E i \in 1..Len(config[t].dsts) :
        config[t].dsts[i] = to_dst_key(operation.account_pair)

\* post: the caller starts a run
ops_Start ==
    /\ proc.pc = "idle"
    /\ AllTasksIdle
    /\ runs < MaxRuns
    /\ runs' = runs + 1
    /\ proc' = [IdleProc EXCEPT !.pc = "loop", !.variant = "operations",
                                !.start = store.operations]
    /\ UNCHANGED <<config, agent, feed, store, committed, tasks, cancelled, remote, created,
                   hist, pending, polls, crashes>>

\* ops_Pop looking at the token after the operation has been popped
ops_Pop_cancel_after_pop ==
    /\ proc.pc = "loop"
    /\ proc.variant = "operations"
    /\ IF store.operations = <<>>
       THEN /\ proc' = Returned("ok")
            /\ UNCHANGED store
       ELSE LET operation == store.operations[Len(store.operations)]
                popped    == [store EXCEPT !.operations = SubSeq(@, 1, Len(@) - 1)]
            IN  /\ store' = popped
                /\ proc' = IF cancelled THEN Returned("ok")
                           ELSE IF find_dst(operation)
                           THEN [proc EXCEPT !.pc = "client", !.operation = operation]
                           ELSE Returned("err")
    /\ UNCHANGED <<config, agent, feed, committed, tasks, cancelled, remote, created, hist,
                   pending, polls, runs, crashes>>

\* lines 28-42: the token is checked, the last operation popped, its
\* destination account looked up
ops_Pop ==
    /\ proc.pc = "loop"
    /\ proc.variant = "operations"
    /\ IF cancelled \/ store.operations = <<>>
       THEN /\ proc' = Returned("ok")
            /\ UNCHANGED store
       ELSE LET operation == store.operations[Len(store.operations)]
                popped    == [store EXCEPT !.operations = SubSeq(@, 1, Len(@) - 1)]
            IN  /\ store' = popped
                /\ proc' = IF find_dst(operation)
                           THEN [proc EXCEPT !.pc = "client", !.operation = operation]
                           ELSE Returned("err")
    /\ UNCHANGED <<config, agent, feed, committed, tasks, cancelled, remote, created, hist,
                   pending, polls, runs, crashes>>

\* line 43: create_client succeeds
ops_CreateClient ==
    /\ proc.pc = "client"
    /\ proc.variant = "operations"
    /\ proc' = [proc EXCEPT !.pc = "operation"]
    /\ UNCHANGED <<config, agent, feed, store, committed, tasks, cancelled, remote, created,
                   hist, pending, polls, runs, crashes>>

\* line 43: create_client fails, post returns the error
ops_CreateClientErr ==
    /\ proc.pc = "client"
    /\ proc.variant = "operations"
    /\ proc' = [Returned("err") EXCEPT !.failed = proc.operation.seq]
    /\ UNCHANGED <<config, agent, feed, store, committed, tasks, cancelled, remote, created,
                   hist, pending, polls, runs, crashes>>

\* where the DestinationStatus entries mirroring src_identifier are:
\* <<user, destination, index>>
MirrorPositions(st, src_identifier) ==
    {x \in UNION {UNION {{<<u, d, i>> : i \in 1..Len(st.users[u].dsts[d].statuses)} :
                            d \in 1..Len(st.users[u].dsts)} :
                     u \in 1..Len(st.users)} :
        st.users[x[1]].dsts[x[2]].statuses[x[3]].src_identifier = src_identifier}

Before(x, y) ==
    \/ x[1] < y[1]
    \/ x[1] = y[1] /\ x[2] < y[2]
    \/ x[1] = y[1] /\ x[2] = y[2] /\ x[3] <= y[3]

\* delete_post / delete_repost: the matching DestinationStatus removed (the
\* one the reverse lookup found)
remove_status(st, src_identifier) ==
    LET found == MirrorPositions(st, src_identifier)
    IN  IF found = {} THEN st
        ELSE LET x == CHOOSE x \in found : \A y \in found : Before(x, y)
             IN  [st EXCEPT !.users[x[1]].dsts[x[2]].statuses =
                     SubSeq(@, 1, x[3] - 1) \o SubSeq(@, x[3] + 1, Len(@))]

\* the processor goes on with the next turn of the loop
Continued(call) ==
    [proc EXCEPT !.pc = "loop", !.i = @ + 1, !.operation = NoOperation, !.call = call]

\* lines 45-58: the operation is applied by create_post, create_repost,
\* delete_post or delete_repost, or is an UpdatePost; an error ends the run
ops_operation(outcome) ==
    LET operation == proc.operation
        seq       == operation.seq
    IN
    /\ proc.pc = "operation"
    /\ proc.variant = "operations"
    /\ IF IsCreate(operation)
       THEN LET reply_identifier ==
                    IF operation.reply_src_identifier = None THEN NoIdentifier
                    ELSE to_dst_identifier(operation.reply_src_identifier, store)
                dst_identifier == created + 1
                call == [name |-> IF operation.type = "CreatePost" THEN "post"
                                  ELSE "repost",
                         identifier |-> reply_identifier]
            IN  IF outcome = "ok"
                THEN /\ store' = insert_status(store, operation.account_pair,
                                     DestinationStatus(operation, dst_identifier))
                     /\ remote' = RemoteCreate(operation, dst_identifier)
                     /\ created' = created + 1
                     /\ hist' = Called(seq, "ok")
                     /\ pending' = pending \cup {seq}
                     /\ proc' = Continued(call)
                ELSE /\ hist' = Called(seq, "err")
                     /\ proc' = [Returned("err") EXCEPT !.failed = seq, !.call = call]
                     /\ UNCHANGED <<store, remote, created, pending>>
       ELSE IF IsDelete(operation)
       THEN LET dst_identifier == to_dst_identifier(operation.src_identifier, store)
                call == [name |-> "delete", identifier |-> dst_identifier]
            IN  IF dst_identifier = NoIdentifier
                THEN /\ outcome = "ok"
                     /\ hist' = Nooped(seq)
                     /\ pending' = pending \cup {seq}
                     /\ proc' = Continued([name |-> None, identifier |-> NoIdentifier])
                     /\ UNCHANGED <<store, remote, created>>
                ELSE IF outcome = "ok"
                THEN /\ remote' = RemoteDelete(operation, dst_identifier)
                     /\ store' = remove_status(store, operation.src_identifier)
                     /\ hist' = Called(seq, "ok")
                     /\ pending' = pending \cup {seq}
                     /\ proc' = Continued(call)
                     /\ UNCHANGED created
                ELSE /\ hist' = Called(seq, "err")
                     /\ proc' = [Returned("err") EXCEPT !.failed = seq, !.call = call]
                     /\ UNCHANGED <<store, remote, created, pending>>
       ELSE \* UpdatePost: warn!("Update is not supported yet"); Ok(())
            /\ outcome = "ok"
            /\ pending' = pending \cup {seq}
            /\ proc' = Continued([name |-> None, identifier |-> NoIdentifier])
            /\ UNCHANGED <<store, remote, created, hist>>
    /\ UNCHANGED <<config, agent, feed, committed, tasks, cancelled, polls, runs, crashes>>

ops_operation_Ok == ops_operation("ok")
ops_operation_Err == ops_operation("err")

OpsPost ==
    \/ ops_Start
    \/ ops_Pop
    \/ ops_CreateClient
    \/ ops_CreateClientErr
    \/ ops_operation_Ok
    \/ ops_operation_Err

NextOps == OpsPost \/ Cancel

\* processor runs of operations/destination.rs on a loaded Store
SpecOps == InitOps /\ [][NextOps]_vars


(* ------------------------------------------------------------------ *)
(* Properties of a processor run                                        *)
(* ------------------------------------------------------------------ *)
\* the entries the current (or last) run has taken off the queue
Taken == {i \in 1..Len(proc.start) : ~InQueue(store, proc.start[i].seq)}

\* C16: one invocation of the processor takes at most 2 actions off
\* Store.queue, however long the queue is, and the others stay queued.
C16_BatchCap ==
    proc.variant # None =>
        /\ Cardinality(Taken) <= 2
        /\ Len(store.operations) >= Len(proc.start) - 2

\* C17: within one run at most one action whose capability call
\* succeeded is uncommitted: a commit lies between the successful calls of
\* two consecutive actions.
C17_CommitBetweenSuccesses ==
    proc.variant # None =>
        Cardinality({i \in 1..Len(proc.start) :
                        /\ proc.start[i].seq \in pending
                        /\ hist[proc.start[i].seq].oks > 0}) <= 1

\* C20: the cancellation token is looked at only between actions: (a) a
\* processor that reaches the top of its loop with the token cancelled
\* returns success and leaves the Store as it is; (b) no action leaves the
\* queue once the token is cancelled; (c) an action that has been popped
\* goes on to its success or to the failure that ends the run, whether or
\* not the token is cancelled meanwhile; (d) between actions, and when a
\* run has returned success, every action the run took off the queue has
\* been applied in full.
C20_CancelStep ==
    /\ (proc.pc = "loop" /\ cancelled /\ proc' # proc) =>
           (proc'.pc = "idle" /\ proc'.result = "ok" /\ store' = store)
    /\ (Len(store'.operations) < Len(store.operations)) => ~cancelled
    /\ (proc.pc \in {"client", "operation"} /\ proc' # proc) =>
           \/ proc.pc = "client" /\ proc'.pc = "operation"
                 /\ proc'.operation = proc.operation
           \/ proc'.pc = "idle" /\ proc'.result = "err"
           \/ proc.pc = "operation" /\ proc'.pc = "loop"
                 /\ proc.operation.seq \in pending'

C20_NoHalfApplied ==
    (proc.pc = "loop" \/ (proc.pc = "idle" /\ proc.result = "ok")) =>
        \A i \in Taken : proc.start[i].seq \in pending

C20_CancelBetweenActions == [][C20_CancelStep]_vars /\ []C20_NoHalfApplied

\* the token was cancelled during a run: the run created the item of the
\* action it had popped, then returned success with actions still queued
C20_Witness ==
    /\ cancelled
    /\ proc.variant = "operations"
    /\ proc.pc = "idle" /\ proc.result = "ok"
    /\ Len(store.operations) = 2
    /\ Cardinality(Taken) = 1
    /\ \A i \in Taken : hist[proc.start[i].seq].oks = 1
    /\ Len(all_dst_statuses(store)) = 1


(* ------------------------------------------------------------------ *)
(* sources/source.rs: the retention sweeper                             *)
(* ------------------------------------------------------------------ *)
\* longest page a fetch returns when polls and sweeps alternate
MaxSweepPage == 2
\* the items of the source account when polls and sweeps alternate
SweepItems == {P1, P3, R4}

all_src_statuses(users) == FlatSeq(Map(LAMBDA user : user.src.statuses, users))

\* necessary_post_src_identifiers leaving out the targets of the reposts
necessary_post_src_identifiers_posts_only(users) ==
    {status.identifier :
        status \in {s \in Range(all_src_statuses(users)) : s.kind = "Post"}}

\* the identifiers of the posts the recorded source statuses refer to
necessary_post_src_identifiers(users) ==
    {IF status.kind = "Post" THEN status.identifier ELSE status.target_identifier :
        status \in Range(all_src_statuses(users))}

necessary_repost_src_identifiers(users) ==
    {status.identifier :
        status \in {s \in Range(all_src_statuses(users)) : s.kind = "Repost"}}

\* retained keeping every Repost status
retained_reposts_kept(status, posts, reposts) ==
    IF status.kind = "Post" THEN status.src_identifier \in posts
    ELSE TRUE

\* the closure handed to statuses.retain
retained(status, posts, reposts) ==
    IF status.kind = "Post" THEN status.src_identifier \in posts
    ELSE status.src_identifier \in reposts

\* the Store after the sweep
retain_statuses(st) ==
    LET posts   == necessary_post_src_identifiers(st.users)
        reposts == necessary_repost_src_identifiers(st.users)
    IN  [st EXCEPT !.users =
            [u \in 1..Len(st.users) |->
                [st.users[u] EXCEPT !.dsts =
                    [d \in 1..Len(st.users[u].dsts) |->
                        [st.users[u].dsts[d] EXCEPT !.statuses =
                            SelectSeq(@, LAMBDA status :
                                retained(status, posts, reposts))]]]]]

\* retain_all_dst_statuses, lines 202-221; proc records the sweep: i is the
\* number of statuses it removed
retain_all_dst_statuses ==
    /\ proc.pc = "idle"
    /\ AllTasksIdle
    /\ runs < MaxRuns
    /\ runs' = runs + 1
    /\ store' = retain_statuses(store)
    /\ proc' = [IdleProc EXCEPT
                   !.variant = "retain", !.result = "ok",
                   !.i = Len(all_dst_statuses(store))
                           - Len(all_dst_statuses(retain_statuses(store)))]
    /\ UNCHANGED <<config, agent, feed, committed, tasks, cancelled, remote, created, hist,
                   pending, polls, crashes>>

\* a Store whose destinations mirror items the source no longer lists
SweepStore ==
    LET status(kind, identifier, src_identifier) ==
            [kind |-> kind, identifier |-> identifier, src_identifier |-> src_identifier]
        d1 == [NewDestination(D1) EXCEPT !.statuses =
                  <<status("Repost", 4, "r4"), status("Post", 3, "p3"),
                    status("Post", 2, "p2"), status("Post", 1, "p1")>>]
        d2 == [NewDestination(D2) EXCEPT !.statuses =
                  <<status("Repost", 6, "r4"), status("Post", 5, "p1")>>]
    IN  [users |-> <<[NewUser(S1) EXCEPT !.dsts = <<d1, d2>>]>>, operations |-> <<>>]

InitSweep ==
    /\ config = <<ConfigUser>>
    /\ feed = [pages |-> LivePages(SweepItems, MaxSweepPage),
               entries |-> MaxPolls * Len(ConfigUser.dsts) * (Cardinality(SweepItems) + 1)]
    /\ store = SweepStore
    /\ committed = SweepStore
    /\ tasks = [t \in 1..1 |-> IdleTask]
    /\ proc = IdleProc
    /\ cancelled = FALSE
    /\ remote = {}
    /\ created = 6
    /\ hist = <<>>
    /\ pending = {}
    /\ polls = 0
    /\ runs = 0
    /\ crashes = 0
    /\ agent = NoAgent

NextSweep == Get \/ retain_all_dst_statuses

\* polls and sweeps
SpecSweep == InitSweep /\ [][NextSweep]_vars

\* a step of the sweeper
Swept == proc'.variant = "retain" /\ runs' = runs + 1

\* C18: after the sweeper has run, every remaining DestinationStatus of
\* Post kind mirrors a recorded source post or the target of a recorded
\* source repost, and every remaining DestinationStatus of Repost kind
\* mirrors a recorded source repost (recorded: in some User.src.statuses).
C18_RetainedAreTrackedStep ==
    Swept =>
        LET tracked   == Range(all_src_statuses(store'.users))
            remaining == all_dst_statuses(store')
        IN  \A i \in 1..Len(remaining) :
                IF remaining[i].kind = "Post"
                THEN \E s \in tracked :
                        \/ s.kind = "Post" /\ s.identifier = remaining[i].src_identifier
                        \/ s.kind = "Repost"
                              /\ s.target_identifier = remaining[i].src_identifier
                ELSE \E s \in tracked :
                        s.kind = "Repost" /\ s.identifier = remaining[i].src_identifier

C18_RetainedAreTracked == [][C18_RetainedAreTrackedStep]_vars

\* a sweep removed statuses and kept, in both destinations, the mirror of
\* a repost and the mirror of its target, the target itself not being
\* recorded as a post
C18_Witness ==
    /\ proc.variant = "retain"
    /\ proc.i = 2
    /\ Len(all_dst_statuses(store)) = 4
    /\ \E u \in 1..Len(store.users) :
          /\ \A i \in 1..Len(store.users[u].src.statuses) :
                store.users[u].src.statuses[i].identifier # "p1"
          /\ \E i \in 1..Len(store.users[u].src.statuses) :
                store.users[u].src.statuses[i].identifier = "r4"

\* C19: the sweeper commits the Store when, and only when, its sweep
\* removed at least one DestinationStatus.
C19_CommitIffRemovedStep ==
    Swept =>
        IF Len(all_dst_statuses(store')) < Len(all_dst_statuses(store))
        THEN committed' = store'
        ELSE committed' = committed

C19_CommitIffRemoved == [][C19_CommitIffRemovedStep]_vars


(* ------------------------------------------------------------------ *)
(* Properties of the Store aggregate                                    *)
(* ------------------------------------------------------------------ *)
UserKey(user) == AccountKey(user.src.origin, user.src.identifier)
DstKey(dst) == AccountKey(dst.origin, dst.identifier)

UniqueUsers(st) ==
    \A i, j \in 1..Len(st.users) : i # j => UserKey(st.users[i]) # UserKey(st.users[j])

UniqueDsts(st) ==
    \A u \in 1..Len(st.users) :
        \A d, e \in 1..Len(st.users[u].dsts) :
            d # e => DstKey(st.users[u].dsts[d]) # DstKey(st.users[u].dsts[e])

\* C21: no Store has two User records of one source key, nor a User with
\* two Destination records of one destination key; a step that looks a
\* key up keeps every record there is, in its place, and adds at most one
\* User and at most one Destination.
C21_UniqueKeys ==
    /\ UniqueUsers(store) /\ UniqueDsts(store)
    /\ UniqueUsers(committed) /\ UniqueDsts(committed)

C21_GetOrCreateStep ==
    store' # committed =>
        /\ Len(store'.users) \in {Len(store.users), Len(store.users) + 1}
        /\ \A u \in 1..Len(store.users) :
              /\ UserKey(store'.users[u]) = UserKey(store.users[u])
              /\ Len(store'.users[u].dsts) >= Len(store.users[u].dsts)
              /\ \A d \in 1..Len(store.users[u].dsts) :
                    DstKey(store'.users[u].dsts[d]) = DstKey(store.users[u].dsts[d])
        /\ Len(FlatSeq(Map(LAMBDA user : user.dsts, store'.users)))
              <= Len(FlatSeq(Map(LAMBDA user : user.dsts, store.users))) + 1

C21_OneRecordPerKey == []C21_UniqueKeys /\ [][C21_GetOrCreateStep]_vars

\* the User and both Destinations were made on demand and one of them was
\* found again by a later lookup
C21_Witness ==
    /\ Len(store.users) = 1
    /\ Len(store.users[1].dsts) = 2
    /\ Len(all_dst_statuses(store)) = 3

(* ------------------------------------------------------------------ *)
(* Repeated polls of an account that has been polled before, with edits *)
(* ------------------------------------------------------------------ *)
\* longest page a fetch returns when the account is polled again
MaxEditPage == 2

\* P1 after its author edited it: same identifier, other content
P1e == [P1 EXCEPT !.content = <<"edited", "p1">>]
EditItems == {P1, P1e, P2}

\* the pages of the source platform: no identifier twice, newest first
EditPages ==
    {s \in SeqsUpTo(EditItems, MaxEditPage) :
        NoDup(Map(LAMBDA live : live.identifier, s))}

\* the Store after a poll that fetched page and a processor that drained the queue
RecordedStore(page) ==
    LET st == get_or_create_user_mut(EmptyStore, S1)
    IN  [st EXCEPT !.users[1].src.statuses = Map(to_source_status, page)]

InitRepoll ==
    /\ config = <<ConfigUser>>
    /\ feed = [pages |-> EditPages,
               entries |-> MaxPolls * Len(ConfigUser.dsts) * 2 * MaxEditPage]
    /\ store \in {RecordedStore(page) : page \in EditPages}
    /\ committed = store
    /\ tasks = [t \in 1..1 |-> IdleTask]
    /\ proc = IdleProc
    /\ cancelled = FALSE
    /\ remote = {}
    /\ created = 0
    /\ hist = <<>>
    /\ pending = {}
    /\ polls = 0
    /\ runs = 0
    /\ crashes = 0
    /\ agent = NoAgent

NextRepoll == Get

\* polls only, of an account with a recorded page, over a feed with edits
SpecRepoll == InitRepoll /\ [][NextRepoll]_vars

\* C22: no UpdatePost is ever built by the reconciler, fanned out or
\* queued, also when an item that is in the baseline and in the page has
\* changed its content between the two polls.
C22_NoUpdateProduced ==
    /\ \A i \in 1..Len(store.operations) : ~IsUpdate(store.operations[i])
    /\ \A i \in 1..Len(hist) : ~IsUpdate(hist[i].op)
    /\ \A t \in Tasks :
          \A i \in 1..Len(tasks[t].operations) : ~IsUpdate(tasks[t].operations[i])

\* a poll that succeeded and queued something met an item of its baseline
\* with other content in the page
C22_Witness ==
    \E t \in Tasks :
        /\ tasks[t].pc = "idle" /\ tasks[t].result = "ok"
        /\ store.operations # <<>>
        /\ \E i \in 1..Len(tasks[t].src_statuses), j \in 1..Len(tasks[t].live_statuses) :
              /\ tasks[t].src_statuses[i].identifier = tasks[t].live_statuses[j].identifier
              /\ tasks[t].src_statuses[i].content # tasks[t].live_statuses[j].content

\* the queue entries ever fanned out for an item and a destination, oldest first
EntriesOf(src_identifier, dst_key) ==
    SelectSeq(hist, LAMBDA h : /\ h.op.src_identifier = src_identifier
                               /\ to_dst_key(h.op.account_pair) = dst_key)

Recorded(st, src_key, src_identifier) ==
    LET u == user_position(st, src_key)
    IN  u # 0 /\ src_identifier \in Identifiers(st.users[u].src.statuses)

CountOf(operations, Test(_)) == Len(SelectSeq(operations, Test))

\* C25 (one poll): the fetch builds one Create for an item of the page that
\* the Store does not record, one Delete for a recorded item that is not
\* in the page, and nothing for any other item.
C25_FetchStep ==
    \A t \in Tasks :
        tasks[t].pc = "fetch" /\ tasks'[t].pc = "store" =>
            \A id \in {live.identifier : live \in EditItems} :
                LET live == id \in Identifiers(tasks'[t].live_statuses)
                    was  == Recorded(store, src_account_key(t), id)
                IN  /\ CountOf(tasks'[t].operations,
                               LAMBDA op : IsCreate(op) /\ op.src_identifier = id)
                         = IF live /\ ~was THEN 1 ELSE 0
                    /\ CountOf(tasks'[t].operations,
                               LAMBDA op : IsDelete(op) /\ op.src_identifier = id)
                         = IF was /\ ~live THEN 1 ELSE 0

\* C25 (across polls): per item and destination the entries fanned out so
\* far alternate between Create and Delete, begin with a Create exactly if
\* the item was not recorded at the start, and end with a Create exactly if
\* the item is recorded now.
C25_Alternation ==
    AllTasksIdle =>
        \A t \in Tasks :
            \A id \in {live.identifier : live \in EditItems} :
                \A d \in 1..Len(config[t].dsts) :
                    LET entries == EntriesOf(id, config[t].dsts[d])
                        first   == Recorded(committed, src_account_key(t), id)
                        now     == Recorded(store, src_account_key(t), id)
                    IN  /\ \A i \in 1..(Len(entries) - 1) :
                              IsCreate(entries[i].op) # IsCreate(entries[i + 1].op)
                        /\ \A i \in 1..Len(entries) :
                              IsCreate(entries[i].op) \/ IsDelete(entries[i].op)
                        /\ entries = <<>> => first = now
                        /\ entries # <<>> =>
                              /\ IsCreate(entries[1].op) = ~first
                              /\ IsCreate(entries[Len(entries)].op) = now

\* C25: an item that stays in the page yields a Create on the poll where it
\* first appears and on no later poll; a recorded item that stays absent
\* yields a Delete on the first poll where it is absent and on no later one.
C25_OnceWhileItStays == [][C25_FetchStep]_vars /\ []C25_Alternation

\* p1 appeared in the first poll and stayed in the second, p2 was recorded,
\* went in the first poll and stayed absent in the second: one Create of p1
\* and one Delete of p2 per destination
C25_Witness ==
    /\ AllTasksIdle /\ polls = 2
    /\ \A t \in Tasks :
          /\ tasks[t].result = "ok"
          /\ ~Recorded(committed, src_account_key(t), "p1")
          /\ Recorded(committed, src_account_key(t), "p2")
          /\ "p1" \in Identifiers(tasks[t].src_statuses)
          /\ "p1" \in Identifiers(tasks[t].live_statuses)
          /\ "p2" \notin Identifiers(tasks[t].src_statuses)
          /\ "p2" \notin Identifiers(tasks[t].live_statuses)
          /\ Len(EntriesOf("p1", D1)) = 1 /\ IsCreate(EntriesOf("p1", D1)[1].op)
          /\ Len(EntriesOf("p2", D1)) = 1 /\ IsDelete(EntriesOf("p2", D1)[1].op)

(* ------------------------------------------------------------------ *)
(* Two source accounts polled concurrently                              *)
(* ------------------------------------------------------------------ *)
S2 == AccountKey("src.example", "bob")
ConfigUser2 == [src |-> S2, dsts |-> <<D2>>]

InitConc ==
    /\ config = <<ConfigUser, ConfigUser2>>
    /\ feed = [pages |-> LivePages(RunItems, MaxRunPage),
               entries |-> MaxPolls * Len(ConfigUser.dsts) * 2 * MaxRunPage]
    /\ store = EmptyStore
    /\ committed = EmptyStore
    /\ tasks = [t \in 1..2 |-> IdleTask]
    /\ proc = IdleProc
    /\ cancelled = FALSE
    /\ remote = {}
    /\ created = 0
    /\ hist = <<>>
    /\ pending = {}
    /\ polls = 0
    /\ runs = 0
    /\ crashes = 0
    /\ agent = NoAgent

NextConc == Get

\* the `get` of two accounts interleaved, one step per section under the lock
SpecConc == InitConc /\ [][NextConc]_vars

SrcStatusesOf(st, src_key) ==
    LET u == user_position(st, src_key)
    IN  IF u = 0 THEN <<>> ELSE st.users[u].src.statuses

DstsOf(st, src_key) ==
    LET u == user_position(st, src_key)
    IN  IF u = 0 THEN <<>> ELSE st.users[u].dsts

Unstamped(operations) == Map(LAMBDA operation : [operation EXCEPT !.seq = 0], operations)

\* C23 (steps): a step of one account's `get` leaves every other account's
\* record as it was; the fetch leaves the whole Store alone; the fan-out
\* keeps the queue and appends this account's operations for each of its
\* destinations, and no other step touches the queue.
C23_SectionStep ==
    \A t \in Tasks :
        tasks'[t] # tasks[t] =>
            /\ \A o \in Tasks \ {t} :
                  /\ SrcStatusesOf(store', src_account_key(o))
                        = SrcStatusesOf(store, src_account_key(o))
                  /\ DstsOf(store', src_account_key(o)) = DstsOf(store, src_account_key(o))
                  /\ user_position(store, src_account_key(o)) # 0 =>
                        store'.users[user_position(store', src_account_key(o))]
                          = store.users[user_position(store, src_account_key(o))]
            /\ tasks[t].pc = "fetch" => store' = store
            /\ tasks[t].pc = "store" =>
                  SrcStatusesOf(store', src_account_key(t)) = tasks[t].statuses
            /\ IF tasks[t].pc = "merge"
               THEN /\ Len(store'.operations)
                         = Len(store.operations)
                             + Len(config[t].dsts) * Len(tasks[t].operations)
                    /\ SubSeq(store'.operations, 1, Len(store.operations))
                         = store.operations
                    /\ Unstamped(SubSeq(store'.operations, Len(store.operations) + 1,
                                        Len(store'.operations)))
                         = merged_operations(config[t].dsts, src_account_key(t),
                                             tasks[t].operations)
               ELSE store'.operations = store.operations

\* C23 (states): once an account's poll has stored its page, the Store
\* records exactly that page for the account until its next poll stores
\* another, whatever the other account does meanwhile; every entry ever
\* fanned out is in the queue, in the order it was fanned out.
C23_NothingLost ==
    /\ \A t \in Tasks :
          tasks[t].pc = "merge" \/ (tasks[t].pc = "idle" /\ tasks[t].result = "ok") =>
              SrcStatusesOf(store, src_account_key(t)) = tasks[t].statuses
    /\ store.operations = Map(LAMBDA h : h.op, hist)

\* C23: the polls of distinct accounts, interleaved section by section
\* with the fetch outside the lock, lose and overwrite nothing.
C23_ConcurrentPolls == [][C23_SectionStep]_vars /\ []C23_NothingLost

\* both polls succeeded with a non-empty page and were interleaved: the
\* first account was registered first, the second fanned out first
C23_Witness ==
    /\ AllTasksIdle
    /\ \A t \in Tasks : tasks[t].result = "ok" /\ tasks[t].statuses # <<>>
    /\ Len(store.users) = 2
    /\ UserKey(store.users[1]) = S1
    /\ store.operations # <<>>
    /\ to_src_key(store.operations[1].account_pair) = S2
    /\ \E i \in 1..Len(store.operations) :
          to_src_key(store.operations[i].account_pair) = S1

\* C26 (steps): up to and including the fetch, a `get` changes no recorded
\* source status, no Destination and no queue entry of any account (it may
\* register its user and store the session); a fetch that does not hand
\* over a page ends the call with the error and leaves the Store alone.
C26_FetchErrStep ==
    \A t \in Tasks :
        tasks'[t] # tasks[t] /\ tasks[t].pc \in {"idle", "client", "read", "fetch"} =>
            /\ store'.operations = store.operations
            /\ \A o \in Tasks :
                  /\ SrcStatusesOf(store', src_account_key(o))
                        = SrcStatusesOf(store, src_account_key(o))
                  /\ DstsOf(store', src_account_key(o)) = DstsOf(store, src_account_key(o))
            /\ tasks[t].pc = "fetch" /\ tasks'[t].pc # "store" =>
                  /\ tasks'[t].pc = "idle" /\ tasks'[t].result = "err"
                  /\ store' = store

C26_FailedFetchChangesNothing == [][C26_FetchErrStep]_vars

\* a poll failed at the fetch, after it had stored its session and read a
\* non-empty baseline, while the queue held entries: all still there
C26_Witness ==
    \E t \in Tasks :
        /\ tasks[t].pc = "idle" /\ tasks[t].result = "err"
        /\ tasks[t].src_statuses # <<>>
        /\ SrcStatusesOf(store, src_account_key(t)) = tasks[t].src_statuses
        /\ store.users[user_position(store, src_account_key(t))].src.session = to_session
        /\ store.operations # <<>>

(* ------------------------------------------------------------------ *)
(* Properties of failed and of ordered applications                     *)
(* ------------------------------------------------------------------ *)
AllSrcStatuses(st) == Map(LAMBDA user : user.src.statuses, st.users)

\* C24: a create whose capability call fails adds no DestinationStatus:
\* every Destination.statuses and every Source.statuses is after the
\* failed application what it was before it.
C24_FailedCreateStep ==
    /\ proc.pc = "operation" /\ IsCreate(proc.operation)
    /\ proc'.pc = "idle" /\ proc'.result = "err"
    => /\ store'.users = store.users
       /\ all_dst_statuses(store') = all_dst_statuses(store)
       /\ AllSrcStatuses(store') = AllSrcStatuses(store)

C24_FailedCreateRecordsNothing == [][C24_FailedCreateStep]_vars

\* a create has failed in a Store that records an earlier create
C24_Witness ==
    /\ proc.pc = "idle" /\ proc.result = "err"
    /\ proc.call.name = "post"
    /\ Len(all_dst_statuses(store)) = 1

\* the queue is drained and every entry was applied without a failed call
DrainedCleanly ==
    /\ proc.pc = "idle" /\ proc.result = "ok"
    /\ store.operations = <<>> /\ pending = {}
    /\ \A s \in 1..Len(hist) :
          hist[s].errs = 0 /\ hist[s].interrupted = 0 /\ hist[s].lost = 0 /\ Applied(s)

\* C27: when a Create and a later Delete of one item and one pair were
\* queued together and the queue has been drained with every call
\* succeeding, the destination holds no item mirroring it and the pair's
\* Destination records no DestinationStatus for it.
C27_CreateThenDeleteLeavesNothing ==
    DrainedCleanly =>
        \A i, j \in 1..Len(hist) :
            /\ i < j
            /\ IsCreate(hist[i].op) /\ IsDelete(hist[j].op)
            /\ hist[i].op.src_identifier = hist[j].op.src_identifier
            /\ hist[i].op.account_pair = hist[j].op.account_pair
            /\ \A k \in 1..Len(hist) :
                  /\ IsCreate(hist[k].op)
                  /\ hist[k].op.src_identifier = hist[i].op.src_identifier
                  => k = i
            => /\ ~\E item \in remote :
                      /\ item.dst = to_dst_key(hist[i].op.account_pair)
                      /\ item.src_identifier = hist[i].op.src_identifier
               /\ ~Mirrors(StatusesOf(store, hist[i].op.account_pair),
                           hist[i].op.src_identifier)

(* ------------------------------------------------------------------ *)
(* Properties of the sweeper against the queue                          *)
(* ------------------------------------------------------------------ *)
\* C28: the sweeper removes no DestinationStatus that a queued DeletePost
\* or DeleteRepost needs for its lookup: a source identifier with a queued
\* Delete that has a DestinationStatus before the sweep has one after it.
C28_SweepKeepsQueuedDeletesStep ==
    Swept =>
        \A i \in 1..Len(store.operations) :
            IsDelete(store.operations[i])
            /\ HasStatusFor(store, store.operations[i].src_identifier)
            => HasStatusFor(store', store.operations[i].src_identifier)

C28_SweepKeepsQueuedDeletes == [][C28_SweepKeepsQueuedDeletesStep]_vars

(* ------------------------------------------------------------------ *)
(* Properties of the identifiers handed to the capabilities             *)
(* ------------------------------------------------------------------ *)
\* C29: the identifier given to the delete capability, or as reply target
\* to the create capability, is recorded in the Destination of the
\* action's own AccountPair.
C29_OwnDestinationStep ==
    /\ proc.pc = "operation"
    /\ proc'.call.name # None
    /\ proc'.call.identifier # NoIdentifier
    => \E i \in 1..Len(StatusesOf(store, proc.operation.account_pair)) :
          StatusesOf(store, proc.operation.account_pair)[i].identifier
            = proc'.call.identifier

C29_IdentifierOfOwnDestination == [][C29_OwnDestinationStep]_vars

(* ------------------------------------------------------------------ *)
(* Properties of a run given an entry without destination               *)
(* ------------------------------------------------------------------ *)
\* C30: when the entry taken names a destination key that none of the
\* destinations given to the run has, the run returns an error, calls no
\* capability, changes no User and no Destination, and the entry is still
\* in Store.queue.
C30_UnknownDestinationStep ==
    /\ proc.pc = "loop" /\ ~cancelled
    /\ store.operations # <<>>
    /\ ~find_dst(store.operations[Len(store.operations)])
    /\ proc' # proc
    => /\ proc'.pc = "idle" /\ proc'.result = "err"
       /\ hist' = hist /\ remote' = remote
       /\ store'.users = store.users
       /\ store'.operations = store.operations

C30_UnknownDestinationKeepsEntry == [][C30_UnknownDestinationStep]_vars

(* ------------------------------------------------------------------ *)
(* Properties of what the sweeper keeps                                 *)
(* ------------------------------------------------------------------ *)
\* a DestinationStatus that a recorded source status of st still refers to
Referenced(st, status) ==
    \E s \in Range(all_src_statuses(st.users)) :
        IF status.kind = "Post"
        THEN \/ s.kind = "Post" /\ s.identifier = status.src_identifier
             \/ s.kind = "Repost" /\ s.target_identifier = status.src_identifier
        ELSE s.kind = "Repost" /\ s.identifier = status.src_identifier

\* C31: a sweep keeps every DestinationStatus that is still referenced (a
\* Post status of a recorded post or of the target of a recorded repost, a
\* Repost status of a recorded repost), in the order they had; it leaves
\* the users, their Destinations, Source.statuses and the queue as they
\* were, and a second sweep right after it changes nothing.
C31_SweepKeepsReferencedStep ==
    Swept =>
        /\ Len(store'.users) = Len(store.users)
        /\ \A u \in 1..Len(store.users) :
              /\ store'.users[u].src = store.users[u].src
              /\ Len(store'.users[u].dsts) = Len(store.users[u].dsts)
              /\ \A d \in 1..Len(store.users[u].dsts) :
                    /\ DstKey(store'.users[u].dsts[d]) = DstKey(store.users[u].dsts[d])
                    /\ SelectSeq(store'.users[u].dsts[d].statuses,
                                 LAMBDA status : Referenced(store, status))
                         = SelectSeq(store.users[u].dsts[d].statuses,
                                     LAMBDA status : Referenced(store, status))
        /\ store'.operations = store.operations
        /\ retain_statuses(store') = store'

C31_SweepKeepsReferenced == [][C31_SweepKeepsReferencedStep]_vars

\* a sweep over a recorded repost of p1 and a recorded post p3, p1 itself
\* not recorded, with entries queued: only the mirror of p2 went
C31_Witness ==
    /\ proc.variant = "retain"
    /\ proc.i = 1
    /\ Len(all_dst_statuses(store)) = 5
    /\ store.operations # <<>>
    /\ \E u \in 1..Len(store.users) :
          /\ "p1" \notin Identifiers(store.users[u].src.statuses)
          /\ Len(store.users[u].dsts[1].statuses) = 3

(* ------------------------------------------------------------------ *)
(* Properties of the queue under polls                                  *)
(* ------------------------------------------------------------------ *)
\* C32: no step of a poll that found nothing new changes the queue, with
\* or without entries of the account queued, and such a poll ends well; a
\* poll that found something changes the queue in its last step only, and
\* then the queue it found is the beginning of the queue it leaves, longer
\* by one entry per operation and destination.
C32_QueueFrameStep ==
    \A t \in Tasks :
        tasks'[t] # tasks[t] /\ crashes' = crashes =>
            IF tasks[t].pc = "merge" /\ tasks[t].operations # <<>>
            THEN /\ Len(store'.operations)
                      = Len(store.operations)
                          + Len(config[t].dsts) * Len(tasks[t].operations)
                 /\ \A i \in 1..Len(store.operations) :
                       store'.operations[i] = store.operations[i]
                 /\ \A i \in (Len(store.operations) + 1)..Len(store'.operations) :
                       to_src_key(store'.operations[i].account_pair) = src_account_key(t)
            ELSE /\ store'.operations = store.operations
                 /\ tasks[t].pc \in {"store", "merge"} /\ tasks'[t].pc = "idle" =>
                       tasks'[t].result = "ok"

C32_PollOnlyAppends == [][C32_QueueFrameStep]_vars

\* a poll found nothing new while entries of its account were queued, went
\* past the early return and ended with those entries still queued
C32_Witness ==
    \E t \in Tasks :
        /\ tasks[t].pc = "idle" /\ tasks[t].result = "ok"
        /\ tasks[t].operations = <<>>
        /\ tasks[t].has_users_operations
        /\ has_users_operations(store.operations, src_account_key(t))

(* ------------------------------------------------------------------ *)
(* protocols/at_proto_client.rs: the session of the AT-protocol client  *)
(* ------------------------------------------------------------------ *)
\* latest reading of the clock, in seconds
MaxClock == 3
\* number of clients constructed over a behaviour
MaxConstructions == 2

\* is_almost_expired counting the last second of the margin as expired
is_almost_expired_inclusive(now_sec, expiry) == now_sec >= expiry - 5 * 60

\* is_almost_expired, lines 53-56, on the seconds since the epoch.  Both
\* operands are i64; expiry is a chrono timestamp (within +-8.3 * 10^12 s),
\* so expiry - 300 cannot leave the i64 range
is_almost_expired(now_sec, expiry) == now_sec > expiry - 5 * 60

\* how long the access token of a fresh login is valid (the server's choice)
IssuedLifetime == 5 * 60 + 2

\* the sessions a Store can hand to Client::new: none, one whose access
\* token carries no expiry, and ones that expire around the margin
StoredSessions ==
    {NoSession, [Session(0, 0) EXCEPT !.has_expiry = FALSE]}
        \cup {Session(5 * 60 + k, 0) : k \in 0..MaxClock}

InitSession ==
    /\ config = <<ConfigUser>>
    /\ feed = [pages |-> {}, entries |-> 0]
    /\ store = EmptyStore
    /\ committed = EmptyStore
    /\ tasks = [t \in 1..1 |-> IdleTask]
    /\ proc = IdleProc
    /\ cancelled = FALSE
    /\ remote = {}
    /\ created = 0
    /\ hist = <<>>
    /\ pending = {}
    /\ polls = 0
    /\ runs = 0
    /\ crashes = 0
    /\ agent \in {[NoAgent EXCEPT !.session_store = session, !.now = now] :
                     session \in StoredSessions, now \in 0..MaxClock}

\* Client::new, lines 89-99: the session store is made of initial_session,
\* which is what to_session gave when the last client was dropped
new_Start ==
    /\ agent.pc = "idle"
    /\ agent.constructions < MaxConstructions
    /\ agent' = [agent EXCEPT !.pc = "init_session",
                              !.initial_session = agent.session_store,
                              !.constructions = @ + 1,
                              !.result = None]
    /\ UNCHANGED <<config, feed, store, committed, tasks, proc, cancelled, remote,
                   created, hist, pending, polls, runs, crashes>>

\* init_session, lines 63-78: the branches that call agent.login
needs_login(session, now_sec) ==
    \/ ~session.some
    \/ session.has_expiry /\ is_almost_expired(now_sec, session.expiry)

\* lines 65 and 76: agent.login(..).await? with its outcome; a login that
\* succeeds puts the new session into the session store
init_session_Login(outcome) ==
    /\ agent.pc = "init_session"
    /\ \E now \in agent.now..MaxClock :
          /\ needs_login(agent.session_store, now)
          /\ agent' = [agent EXCEPT
                !.pc = "idle",
                !.now = now,
                !.logins = @ + 1,
                !.session_store =
                    IF outcome = "ok"
                    THEN Session(now + IssuedLifetime, agent.constructions)
                    ELSE @,
                !.result = outcome]
    /\ UNCHANGED <<config, feed, store, committed, tasks, proc, cancelled, remote,
                   created, hist, pending, polls, runs, crashes>>

init_session_Login_Ok == init_session_Login("ok")
init_session_Login_Err == init_session_Login("err")

\* line 79: the stored session is not almost expired, Ok(()) without a login
init_session_Reuse ==
    /\ agent.pc = "init_session"
    /\ agent.session_store.some /\ agent.session_store.has_expiry
    /\ \E now \in agent.now..MaxClock :
          /\ ~needs_login(agent.session_store, now)
          /\ agent' = [agent EXCEPT !.pc = "idle", !.now = now, !.result = "ok"]
    /\ UNCHANGED <<config, feed, store, committed, tasks, proc, cancelled, remote,
                   created, hist, pending, polls, runs, crashes>>

\* lines 69-70: unverified_payload().unwrap() / expiry.unwrap() on an access
\* token without a readable expiry
init_session_Panic ==
    /\ agent.pc = "init_session"
    /\ agent.session_store.some /\ ~agent.session_store.has_expiry
    /\ agent' = [agent EXCEPT !.pc = "idle", !.result = "panic"]
    /\ UNCHANGED <<config, feed, store, committed, tasks, proc, cancelled, remote,
                   created, hist, pending, polls, runs, crashes>>

NextSession ==
    \/ new_Start
    \/ init_session_Login_Ok
    \/ init_session_Login_Err
    \/ init_session_Reuse
    \/ init_session_Panic

\* constructions of the AT-protocol client, each from the session the last left
SpecSession == InitSession /\ [][NextSession]_vars

\* C33: constructing the client calls login exactly when no session is
\* stored or the clock, in seconds, is past the access token's expiry minus
\* 300; with a stored session that expires 300 seconds or more after the
\* clock's reading there is no login, the construction succeeds and the
\* session store still holds the stored session.
C33_LoginStep ==
    agent.pc = "init_session" /\ agent'.pc = "idle" =>
        LET session == agent.session_store
            now_sec == agent'.now
        IN  /\ agent'.logins \in {agent.logins, agent.logins + 1}
            /\ agent'.logins = agent.logins + 1
                  <=> \/ ~session.some
                      \/ session.has_expiry /\ now_sec > session.expiry - 300
            /\ session.some /\ session.has_expiry /\ session.expiry - now_sec >= 300 =>
                  /\ agent'.logins = agent.logins
                  /\ agent'.result = "ok"
                  /\ agent'.session_store = agent.initial_session

C33_LoginIffMissingOrExpiring == [][C33_LoginStep]_vars

\* the first construction found no session and logged in; the second read
\* the clock exactly 300 seconds before that session expires and reused it
C33_Witness ==
    /\ agent.pc = "idle" /\ agent.result = "ok"
    /\ agent.constructions = 2
    /\ agent.logins = 1
    /\ agent.session_store.login = 1
    /\ agent.session_store = agent.initial_session
    /\ agent.now = agent.session_store.expiry - 5 * 60

====
